---------------------------- MODULE Spec2Model ----------------------------
(***************************************************************************)
(* A model of the folder-to-commit migration engine of foldertogit         *)
(* (package gitconverter, src/pkg/gitconverter/converter.go, lines 1-563). *)
(*                                                                         *)
(* Strings are sequences of one-character strings, so that the string      *)
(* functions of the code (Split, TrimPrefix, TrimSpace, Contains, Sprintf, *)
(* filepath.Match) are computed character by character.                    *)
(***************************************************************************)
EXTENDS Integers, Sequences, FiniteSets, TLC

VARIABLES
    \* ---- the target directory, on disk ----
    targetExists,   \* config.TargetDir exists
    gitDir,         \* TargetDir/.git exists: a repository is there
    tree,           \* the files and directories below TargetDir, .git aside
    index,          \* the repository's index: path -> staged content
    commits,        \* the history of the branch, oldest first; the branch
                    \* reference points at the last one
    \* ---- one call of MigrateToGit ----
    pc,             \* "idle" | "loop" | "copied" | "done"
    config,         \* the Config of the call
    folders,        \* the FolderInfo list of the call
    pos,            \* position of the folder loop in folders
    existingVersions, \* the version tokens the scan of lines 157-184 found
    fileCount,      \* copyFilesAndTrack's count for folders[i]
    newFiles,       \* copyFilesAndTrack's list for folders[i]
    result,         \* "" while running, then "ok" or the error returned
    \* ---- what the properties refer to ----
    pre,            \* the target as it was when the call started
    rerun,          \* the call repeats the previous call's arguments
    runs,           \* the number of calls so far
    faulted,        \* a file-system or library operation has failed
    copiedFolders,  \* the number of folders of the call from which
                    \* copyFilesAndTrack has copied at least one file
    \* ---- the default-message round trip (format, then scan) ----
    rtVersion,      \* the version token of the folder
    rtMsg,          \* the formatted commit message
    rtScan,         \* what the existing-version scan extracts from rtMsg
    rtpc,           \* "off" | "start" | "formatted" | "scanned"
    \* ---- one call of FindVersionedFolders ----
    matches,        \* what filepath.Glob returns, with what the call reads of
                    \* each match: its base name, whether it is a directory,
                    \* and the time getFolderCreationTime returns for it
    found,          \* the folders returned
    findErr,        \* "" or the error returned
    findpc,         \* "off" | "start" | "returned"
    findConfig,     \* what the call reads of its Config: ExtractPattern, and
                    \* whether filepath.Glob accepts SourceDir/Pattern
    examined,       \* the number of matches the call has looked at (os.Stat)
    \* ---- one resolution of a commit's author (lines 219-227) ----
    auLines,        \* the lines of the authors-mapping file
    auReadable,     \* os.ReadFile of the authors-mapping file succeeds
    auConfig,       \* the Config of the resolution
    auVersion,      \* the version of the folder
    auAuthor,       \* the author resolved
    aupc,           \* "off" | "start" | "resolved"
    \* ---- one call of clearDirectory on a directory of the user's ----
    clDir,          \* the directory the call is for
    clTree,         \* the tree below the directory before the call
    clFaults,       \* the file-system operations that fail during the call
    clResult,       \* the tree the call leaves, and whether it returns an error
    clpc,           \* "off" | "start" | "cleared"
    \* ---- one call of getFolderCreationTime ----
    tmRoot,         \* the folder's path
    tmWalk,         \* what filepath.Walk finds below the folder, in its order
    tmTimes,        \* fileTimes when the walk has ended
    tmProcessed,    \* processedFiles when the walk has ended
    tmResult,       \* the time returned
    tmpc,           \* "off" | "start" | "returned"
    \* ---- one commit message (lines 229-242) ----
    msConfig,       \* the Config, with its MessageTemplate
    msFolder,       \* the folder
    msCount,        \* fileCount
    msResult,       \* commitMsg
    mspc,           \* "off" | "start" | "formatted"
    \* ---- one copy in append mode (lines 368-438) ----
    apTree,         \* the tree below dst before the call
    apSrc,          \* src
    apBroken,       \* the files for which copyFile fails
    apResult,       \* the tree after the call, fileCount, newFiles, err
    appc,           \* "off" | "start" | "copied"
    \* ---- the window of the GUI (part_000) ----
    sourceEntry,    \* the text of g.sourceEntry
    targetEntry,    \* the text of g.targetEntry
    dryRunCheck,    \* g.dryRunCheck.Checked
    guiConfig,      \* g.config: SourceDir, TargetDir, DryRun
    convertButton,  \* g.convertButton: whether it is enabled, and its text
    goroutines,     \* the goroutines of startConversion: position, folders found
    shown,          \* the last line of the log or error dialog
    guipc           \* "off" | "open"

targetVars == <<targetExists, gitDir, tree, index, commits>>

callVars == <<pc, config, folders, pos, existingVersions, fileCount, newFiles, result>>

auxVars == <<pre, rerun, runs, faulted, copiedFolders>>

migrateVars == <<targetVars, callVars, auxVars>>

rtVars == <<rtVersion, rtMsg, rtScan, rtpc>>

findVars == <<matches, found, findErr, findpc, findConfig, examined>>

authorVars == <<auLines, auReadable, auConfig, auVersion, auAuthor, aupc>>

clearVars == <<clDir, clTree, clFaults, clResult, clpc>>

timeVars == <<tmRoot, tmWalk, tmTimes, tmProcessed, tmResult, tmpc>>

messageVars == <<msConfig, msFolder, msCount, msResult, mspc>>

appendVars == <<apTree, apSrc, apBroken, apResult, appc>>

guiVars == <<sourceEntry, targetEntry, dryRunCheck, guiConfig, convertButton,
             goroutines, shown, guipc>>

\* what the steps of MigrateToGit, of the round trip, of the discovery and
\* of the author resolution leave alone
notMigrate == <<rtVars, findVars, authorVars, clearVars, timeVars, messageVars, appendVars, guiVars>>

notRoundTrip == <<migrateVars, findVars, authorVars, clearVars, timeVars, messageVars, appendVars, guiVars>>

notFind == <<migrateVars, rtVars, authorVars, clearVars, timeVars, messageVars, appendVars, guiVars>>

notAuthor == <<migrateVars, rtVars, findVars, clearVars, timeVars, messageVars, appendVars, guiVars>>

notClear == <<migrateVars, rtVars, findVars, authorVars, timeVars, messageVars, appendVars, guiVars>>

notTime == <<migrateVars, rtVars, findVars, authorVars, clearVars, messageVars, appendVars, guiVars>>

notMessage == <<migrateVars, rtVars, findVars, authorVars, clearVars, timeVars, appendVars, guiVars>>

notAppend == <<migrateVars, rtVars, findVars, authorVars, clearVars, timeVars, messageVars, guiVars>>

notGUI == <<migrateVars, rtVars, findVars, authorVars, clearVars, timeVars, messageVars,
           appendVars>>

vars == <<migrateVars, rtVars, findVars, authorVars, clearVars, timeVars, messageVars, appendVars, guiVars>>

---------------------------------------------------------------------------
(* Bounds *)

\* the longest version token of the round-trip specification
MaxVerLen == 3

\* the number of calls of MigrateToGit with fresh arguments in one behaviour
MaxRuns == 2

\* the latest creation time of a discovered folder
MaxTime == 3

---------------------------------------------------------------------------
(* Strings *)

\* the literal "Version" of the message format and of the scan
StrVersion == <<"V", "e", "r", "s", "i", "o", "n">>

\* the literal " (created: " of the message format
StrCreated == <<" ", "(", "c", "r", "e", "a", "t", "e", "d", ":", " ">>

\* unicode.IsSpace, restricted to the characters of the model
IsSpace(c) == c \in {" ", "\t", "\n"}

\* strings.HasPrefix
HasPrefix(s, p) == Len(s) >= Len(p) /\ SubSeq(s, 1, Len(p)) = p

\* strings.HasSuffix
HasSuffix(s, p) == Len(s) >= Len(p) /\ SubSeq(s, Len(s) - Len(p) + 1, Len(s)) = p

\* strings.TrimPrefix
TrimPrefix(s, p) == IF HasPrefix(s, p) THEN SubSeq(s, Len(p) + 1, Len(s)) ELSE s

\* strings.Contains
Contains(s, sub) ==
    \E i \in 1..(Len(s) - Len(sub) + 1) : SubSeq(s, i, i + Len(sub) - 1) = sub

RECURSIVE TrimLeft(_)
TrimLeft(s) ==
    IF s # <<>> /\ IsSpace(Head(s)) THEN TrimLeft(Tail(s)) ELSE s

RECURSIVE TrimRight(_)
TrimRight(s) ==
    IF s # <<>> /\ IsSpace(s[Len(s)]) THEN TrimRight(SubSeq(s, 1, Len(s) - 1)) ELSE s

\* strings.TrimSpace
TrimSpace(s) == TrimRight(TrimLeft(s))

\* strings.Split(s, sep) for a one-character separator: the parts between the
\* separators, at least one part
RECURSIVE SplitFrom(_, _, _)
SplitFrom(s, sep, cur) ==
    IF s = <<>> THEN <<cur>>
    ELSE IF Head(s) = sep THEN <<cur>> \o SplitFrom(Tail(s), sep, <<>>)
    ELSE SplitFrom(Tail(s), sep, Append(cur, Head(s)))

Split(s, sep) == SplitFrom(s, sep, <<>>)

\* the decimal digit d as a character
Digit(d) == <<"0", "1", "2", "3", "4", "5", "6", "7", "8", "9">>[d + 1]

\* time.Unix(t, 0).Format("2006-01-02 15:04:05") for 0 <= t < 60, in UTC
FormatTime(t) ==
    <<"1", "9", "7", "0", "-", "0", "1", "-", "0", "1", " ",
      "0", "0", ":", "0", "0", ":">> \o <<Digit(t \div 10), Digit(t % 10)>>

---------------------------------------------------------------------------
(* The commit message and the existing-version scan *)

\* the default message: fmt.Sprintf("Version %s: %s (created: %s)", ...)
DefaultMessage(version, base, date) ==
    StrVersion \o <<" ">> \o version \o <<":", " ">> \o base
        \o StrCreated \o date \o <<")">>

\* the version token the scan takes from one commit message: <<token>>, or
\* <<>> when the message does not contain "Version"
ScanVersion(msg) ==
    IF Contains(msg, StrVersion)
    THEN <<TrimSpace(TrimPrefix(Split(msg, ":")[1], StrVersion))>>
    ELSE <<>>

---------------------------------------------------------------------------
(* File names and paths.  A name is a string; a path is a sequence of names. *)

\* the protected names of lines 279-296 without ".git"
systemDirsWithoutGit ==
    { <<".", "T", "r", "a", "s", "h">>,
      <<".", "T", "r", "a", "s", "h", "e", "s">>,
      <<".", "c", "o", "n", "f", "i", "g">>,
      <<".", "c", "a", "c", "h", "e">>,
      <<".", "l", "o", "c", "a", "l">>,
      <<"L", "i", "b", "r", "a", "r", "y">>,
      <<"A", "p", "p", "l", "i", "c", "a", "t", "i", "o", "n", "s">>,
      <<"S", "y", "s", "t", "e", "m">>,
      <<"U", "s", "e", "r", "s">>,
      <<"b", "i", "n">>,
      <<"e", "t", "c">>,
      <<"u", "s", "r">>,
      <<"v", "a", "r">>,
      <<"t", "m", "p">>,
      <<"o", "p", "t">> }

\* clearDirectory's protected names
systemDirs ==
    { <<".", "g", "i", "t">>,
      <<".", "T", "r", "a", "s", "h">>,
      <<".", "T", "r", "a", "s", "h", "e", "s">>,
      <<".", "c", "o", "n", "f", "i", "g">>,
      <<".", "c", "a", "c", "h", "e">>,
      <<".", "l", "o", "c", "a", "l">>,
      <<"L", "i", "b", "r", "a", "r", "y">>,
      <<"A", "p", "p", "l", "i", "c", "a", "t", "i", "o", "n", "s">>,
      <<"S", "y", "s", "t", "e", "m">>,
      <<"U", "s", "e", "r", "s">>,
      <<"b", "i", "n">>,
      <<"e", "t", "c">>,
      <<"u", "s", "r">>,
      <<"v", "a", "r">>,
      <<"t", "m", "p">>,
      <<"o", "p", "t">> }

\* the directory names copyFilesAndTrack does not descend into
ignoreDirs ==
    { <<".", "g", "i", "t">>,
      <<"_", "_", "p", "y", "c", "a", "c", "h", "e", "_", "_">>,
      <<"v", "e", "n", "v">>,
      <<".", "v", "e", "n", "v">>,
      <<"n", "o", "d", "e", "_", "m", "o", "d", "u", "l", "e", "s">>,
      <<".", "i", "d", "e", "a">>,
      <<".", "v", "s", "c", "o", "d", "e">>,
      <<"d", "i", "s", "t">>,
      <<"b", "u", "i", "l", "d">>,
      <<"e", "n", "v">> }

\* the file-name patterns copyFilesAndTrack skips, in the order it tries them
ignoreFiles ==
    << <<".", "D", "S", "_", "S", "t", "o", "r", "e">>,
       <<"*", ".", "p", "y", "c">>,
       <<"*", ".", "p", "y", "o">>,
       <<"*", ".", "p", "y", "d">>,
       <<".", "g", "i", "t", "i", "g", "n", "o", "r", "e">>,
       <<".", "g", "i", "t", "a", "t", "t", "r", "i", "b", "u", "t", "e", "s">>,
       <<"*", ".", "s", "w", "p">>,
       <<"*", ".", "s", "w", "o">>,
       <<"*", ".", "l", "o", "g">>,
       <<"*", ".", "b", "a", "k">> >>

\* filepath.Match(pattern, name) for the two shapes ignoreFiles uses: a
\* literal name, and "*" followed by a literal (a name holds no separator,
\* so "*" matches any prefix of it, the empty one included)
Match(pattern, name) ==
    IF pattern # <<>> /\ Head(pattern) = "*"
    THEN HasSuffix(name, Tail(pattern))
    ELSE name = pattern

\* filepath.Base of a non-empty path
Base(path) == path[Len(path)]

\* filepath.Dir of a non-empty path
Dir(path) == SubSeq(path, 1, Len(path) - 1)

\* filepath.Join(dir, rel)
Join(dir, rel) == dir \o rel

\* whether path p lies strictly below directory d
IsBelow(d, p) == Len(p) > Len(d) /\ SubSeq(p, 1, Len(d)) = d

\* filepath.Rel(base, p) for a path p at or below base
Rel(base, p) == SubSeq(p, Len(base) + 1, Len(p))

---------------------------------------------------------------------------
(* The source folders handed to MigrateToGit, and the target directory *)

\* the user's home directory (os.UserHomeDir) and config.TargetDir
HomeDir == << <<"h", "o", "m", "e">>, <<"u">> >>
TargetDir == << <<"h", "o", "m", "e">>, <<"u">>, <<"r", "e", "p", "o">> >>

\* FolderInfo.Path of the version folders of the source directory
PathV10 == <<"v", "1", ".", "0">>
PathW10 == <<"w", "1", ".", "0">>
PathV12 == <<"v", "1", ".", "2">>
PathV13 == <<"v", "1", ".", "3">>
PathV14 == <<"v", "1", ".", "4">>

FolderPaths == {PathV10, PathW10, PathV12, PathV13}

\* the files below each folder, as paths relative to it, in the order
\* filepath.Walk visits them (lexical order of the names in each directory)
SourceTree(path) ==
    CASE path = PathV10 -> << <<<<"a">>>>, <<<<"b", "i", "n">>, <<"x">>>>, <<<<"d">>, <<"c">>>> >>
      [] path = PathW10 -> << <<<<"b">>>> >>
      [] path = PathV12 -> << <<<<"a">>>> >>
      [] path = PathV13 -> << <<<<"d", "i", "s", "t">>, <<"y">>>>, <<<<"e", ".", "l", "o", "g">>>> >>
      [] path = PathV14 -> << <<<<"d">>>>, <<<<"z">>>> >>

\* the FolderInfo FindVersionedFolders makes of a folder: the version is the
\* match of the extraction pattern in the base name (two of the folders
\* carry the same version), the creation times differ
FolderInfo(path) ==
    [ Path |-> path,
      Version |-> Tail(path),
      CreationTime |-> CASE path = PathV10 -> 1
                         [] path = PathW10 -> 2
                         [] path = PathV12 -> 3
                         [] path = PathV13 -> 4 ]

\* the content of a file: the folder it was copied from, or UserContent for
\* a file that was in the target before any migration
UserContent == <<"u", "s", "e", "r">>

---------------------------------------------------------------------------
(* The file tree below the target: fs.files maps each file's path (relative
   to the target) to its content, fs.dirs is the set of directories.  The
   .git directory is not part of it (see gitDir). *)

NoFiles == [p \in {} |-> <<>>]

EmptyTree == [files |-> NoFiles, dirs |-> {}]

\* os.Stat(path) succeeds
Exists(rel, fs) == rel \in DOMAIN fs.files \/ rel \in fs.dirs

\* the names os.ReadDir(dir) returns
Entries(dir, fs) ==
    { p[Len(dir) + 1] : p \in { q \in (DOMAIN fs.files) \cup fs.dirs :
                                  Len(q) = Len(dir) + 1 /\ IsBelow(dir, q) } }

\* the characters of the names, in the order of their bytes
Chars ==
    <<".", "0", "1", "2", "3", "4", "5", "6", "7", "8", "9",
      "A", "B", "C", "D", "E", "F", "G", "H", "I", "J", "K", "L", "M",
      "N", "O", "P", "Q", "R", "S", "T", "U", "V", "W", "X", "Y", "Z",
      "a", "b", "c", "d", "e", "f", "g", "h", "i", "j", "k", "l", "m",
      "n", "o", "p", "q", "r", "s", "t", "u", "v", "w", "x", "y", "z">>

\* the place of each character in that order
CharRank == [c \in { Chars[k] : k \in DOMAIN Chars } |->
                CHOOSE k \in DOMAIN Chars : Chars[k] = c]

\* a < b for two names, as strings
RECURSIVE NameLess(_, _)
NameLess(a, b) ==
    IF b = <<>> THEN FALSE
    ELSE IF a = <<>> THEN TRUE
    ELSE IF Head(a) = Head(b) THEN NameLess(Tail(a), Tail(b))
    ELSE CharRank[Head(a)] < CharRank[Head(b)]

\* the names of a set, sorted
RECURSIVE SortedNames(_)
SortedNames(names) ==
    IF names = {} THEN <<>>
    ELSE LET first == CHOOSE n \in names : \A o \in names \ {n} : NameLess(n, o)
         IN  <<first>> \o SortedNames(names \ {first})

\* os.ReadDir(dir): the entries of dir, sorted by name
ReadDir(dir, fs) == SortedNames(Entries(dir, fs))

\* a symbolic link is a leaf of the tree: a file entry whose content says
\* that it is a link
LinkContent == <<"l", "i", "n", "k">>

\* an entry that is taken for a regular file or a directory whatever it is
IsSymlinkNever(rel, fs) == FALSE

\* os.Lstat(path).Mode()&os.ModeSymlink != 0
IsSymlink(rel, fs) == rel \in DOMAIN fs.files /\ fs.files[rel] = LinkContent

\* os.Remove of a file; it fails (and changes nothing) for the paths in stuck
RemoveFile(rel, fs, stuck) ==
    IF rel \in stuck THEN fs
    ELSE [fs EXCEPT !.files = [p \in (DOMAIN fs.files) \ {rel} |-> fs.files[p]]]

\* os.Remove of a directory: it fails (and changes nothing) unless the
\* directory is empty, and for the paths in stuck
RemoveDir(rel, fs, stuck) ==
    IF Entries(rel, fs) = {} /\ rel \notin stuck
    THEN [fs EXCEPT !.dirs = @ \ {rel}]
    ELSE fs

\* os.MkdirAll(dir): dir and every ancestor of it below the target
MkdirAll(rel, fs) ==
    [fs EXCEPT !.dirs = @ \cup { SubSeq(rel, 1, k) : k \in 1..Len(rel) }]

\* the directories that a set of relative file paths lies in
ParentDirs(files) ==
    UNION { { SubSeq(f, 1, n) : n \in 1..(Len(f) - 1) } : f \in files }

\* a path as the string filepath functions return: names joined by "/",
\* "." for the empty path
RECURSIVE PathString(_)
PathString(path) ==
    IF path = <<>> THEN <<".">>
    ELSE IF Len(path) = 1 THEN path[1]
    ELSE path[1] \o <<"/">> \o PathString(Tail(path))

\* filepath.Rel(base, dir) as a string: the remainder below base, "." for
\* base itself, and a path starting with ".." for a directory outside base
RelString(base, dir) ==
    IF dir = base \/ IsBelow(base, dir) THEN PathString(Rel(base, dir))
    ELSE <<".", ".", "/">> \o PathString(dir)

\* clearDirectory's home-directory guard (lines 304-315): the directory is
\* below (or is) the home directory and its path relative to it starts with
\* "." and holds no ".."
HiddenUnderHome(dir) ==
    /\ HasPrefix(PathString(dir), PathString(HomeDir))
    /\ LET relPath == RelString(HomeDir, dir)
       IN  HasPrefix(relPath, <<".">>) /\ ~Contains(relPath, <<".", ".">>)

\* the paths at which the operation of one kind fails
FailsAt(kind, faults) == { f.path : f \in { g \in faults : g.kind = kind } }

\* clearDirectory(root/dir): root is the directory the outermost call is
\* for, dir is a path relative to it; faults are the
\* operations that fail.  The result is the tree left and whether an error
\* is returned.  The entries are taken in the order of os.ReadDir.  An entry
\* with a protected name is skipped; a failure of os.Lstat returns the error;
\* a symbolic link is skipped; a subdirectory is cleared and then removed
\* (which fails when something was left in it), and is left alone when its
\* clearing returns an error; a file is removed.  A removal that fails is
\* logged and the loop goes on.
RECURSIVE clearDirectory(_, _, _, _)
RECURSIVE ClearEntries(_, _, _, _, _)
ClearEntries(root, dir, names, fs, faults) ==
    IF names = <<>> THEN [fs |-> fs, err |-> FALSE]
    ELSE LET name == Head(names)
             path == Append(dir, name)
             rest == Tail(names)
             stuck == FailsAt("remove", faults)
         IN  IF name \in systemDirs THEN ClearEntries(root, dir, rest, fs, faults)
             ELSE IF path \in FailsAt("lstat", faults) THEN [fs |-> fs, err |-> TRUE]
             ELSE IF IsSymlink(path, fs) THEN ClearEntries(root, dir, rest, fs, faults)
             ELSE IF path \in fs.dirs
                  THEN LET sub == clearDirectory(root, path, fs, faults)
                       IN  IF sub.err THEN ClearEntries(root, dir, rest, sub.fs, faults)
                           ELSE ClearEntries(root, dir, rest,
                                             RemoveDir(path, sub.fs, stuck), faults)
                  ELSE ClearEntries(root, dir, rest, RemoveFile(path, fs, stuck), faults)

clearDirectory(root, dir, fs, faults) ==
    IF Base(Join(root, dir)) \in systemDirs THEN [fs |-> fs, err |-> FALSE]
    ELSE IF HiddenUnderHome(Join(root, dir)) THEN [fs |-> fs, err |-> FALSE]
    ELSE IF dir \in FailsAt("readdir", faults) THEN [fs |-> fs, err |-> TRUE]
    ELSE ClearEntries(root, dir, ReadDir(dir, fs), fs, faults)

\* the repository's metadata directory below the target, and a file in it
GitDir == <<<<".", "g", "i", "t">>>>

GitHead == <<<<".", "g", "i", "t">>, <<"H", "E", "A", "D">>>>

\* the target's tree with the metadata directory of the repository, which
\* the variable tree leaves out
WithGit(fs) ==
    [files |-> (GitHead :> <<"r", "e", "p", "o", "s", "i", "t", "o", "r", "y">>) @@ fs.files, dirs |-> fs.dirs \cup {GitDir}]

WithoutGit(fs) ==
    [files |-> [p \in { q \in DOMAIN fs.files : ~IsBelow(GitDir, q) } |-> fs.files[p]],
     dirs |-> { d \in fs.dirs : d # GitDir /\ ~IsBelow(GitDir, d) }]

\* clearDirectory(config.TargetDir) of line 202, on the target as it is on
\* disk: the tree it leaves, whether the repository is still there, and
\* whether the error of line 203 is returned
ClearTarget(fs, hasGit, faults) ==
    LET cleared == clearDirectory(TargetDir, <<>>, IF hasGit THEN WithGit(fs) ELSE fs, faults)
    IN  [fs |-> WithoutGit(cleared.fs),
         git |-> GitDir \in cleared.fs.dirs /\ GitHead \in DOMAIN cleared.fs.files,
         err |-> cleared.err]

\* whether copyFilesAndTrack's walk skips the file at rel: a directory above
\* it is in ignoreDirs (SkipDir), or its name matches a pattern of ignoreFiles
Ignored(rel) ==
    \/ \E k \in 1..(Len(rel) - 1) : rel[k] \in ignoreDirs
    \/ \E i \in 1..Len(ignoreFiles) : Match(ignoreFiles[i], Base(rel))

\* copyFile(src, dst): the target file gets the content of the source file
copyFile(src, rel, fs) == [fs EXCEPT !.files = (rel :> src) @@ @]

\* CopyOne without the os.Stat check of lines 418-424: every file that passes
\* the filters is copied
CopyOneUnchecked(src, rel, appendMode, acc, broken) ==
    IF Ignored(rel) THEN acc
    ELSE LET made == MkdirAll(Dir(rel), acc.fs)
         IN  IF rel \in broken
             THEN [acc EXCEPT !.fs = made, !.err = TRUE]
             ELSE [ fs |-> copyFile(src, rel, made),
                    fileCount |-> acc.fileCount + 1,
                    newFiles |-> Append(acc.newFiles, Join(TargetDir, rel)),
                    err |-> FALSE ]

\* one step of copyFilesAndTrack's walk, for the file at rel of folder src;
\* acc holds the target tree, fileCount, newFiles and the walk's error;
\* copyFile fails for the file at broken (when it gets that far)
CopyOne(src, rel, appendMode, acc, broken) ==
    IF Ignored(rel) THEN acc
    ELSE LET made == MkdirAll(Dir(rel), acc.fs)
         IN  IF appendMode /\ Exists(rel, made)
             THEN [acc EXCEPT !.fs = made]
             ELSE IF rel \in broken
             THEN [acc EXCEPT !.fs = made, !.err = TRUE]
             ELSE [ fs |-> copyFile(src, rel, made),
                    fileCount |-> acc.fileCount + 1,
                    newFiles |-> Append(acc.newFiles, Join(TargetDir, rel)),
                    err |-> FALSE ]

\* filepath.Walk over the files of src: it stops at the first error
RECURSIVE CopyWalk(_, _, _, _, _)
CopyWalk(src, todo, appendMode, acc, broken) ==
    IF todo = <<>> \/ acc.err THEN acc
    ELSE CopyWalk(src, Tail(todo), appendMode,
                  CopyOne(src, Head(todo), appendMode, acc, broken), broken)

\* copyFilesAndTrack(src, dst, appendMode) on the target tree fs: the new
\* tree, the number of files copied, their target paths and the error
copyFilesAndTrack(src, fs, appendMode, broken) ==
    CopyWalk(src, SourceTree(src), appendMode,
             [fs |-> fs, fileCount |-> 0, newFiles |-> <<>>, err |-> FALSE], broken)

\* the files of folder src that the walk does not skip
FilteredFiles(src) ==
    { SourceTree(src)[k] : k \in { j \in 1..Len(SourceTree(src)) : ~Ignored(SourceTree(src)[j]) } }

---------------------------------------------------------------------------
(* The repository, as the go-git calls of MigrateToGit use it *)

\* repo.References(): HEAD is a symbolic reference to the branch; the branch
\* is a hash reference to the last commit, and exists once there is a commit
References(history) ==
    { [Name |-> <<"H", "E", "A", "D">>, Type |-> "SymbolicReference", Hash |-> 0] }
        \cup IF history = <<>> THEN {}
             ELSE { [Name |-> <<"r", "e", "f", "s", "/", "h", "e", "a", "d", "s", "/", "m", "a", "s", "t", "e", "r">>, Type |-> "HashReference",
                     Hash |-> Len(history)] }

\* the set existingVersions of lines 158-184: for every hash reference, the
\* token scanned from the message of the commit it points at
ExistingVersions(history) ==
    { ScanVersion(history[ref.Hash].Message)[1] :
        ref \in { r \in References(history) :
                    /\ r.Type = "HashReference"
                    /\ ScanVersion(history[r.Hash].Message) # <<>> } }

\* worktree.Add(relPath): the index entry of relPath becomes the file's
\* content; it fails (and changes nothing) for the paths in unstaged
WorktreeAdd(relPath, idx, fs, unstaged) ==
    IF relPath \in DOMAIN fs.files /\ relPath \notin unstaged
    THEN (relPath :> fs.files[relPath]) @@ idx
    ELSE idx

\* the staging loop of lines 244-255 with a break at the first Add that
\* fails
RECURSIVE StageNewFilesStop(_, _, _, _)
StageNewFilesStop(files, idx, fs, unstaged) ==
    IF files = <<>> \/ Rel(TargetDir, Head(files)) \in unstaged THEN idx
    ELSE StageNewFilesStop(Tail(files),
                           WorktreeAdd(Rel(TargetDir, Head(files)), idx, fs, unstaged),
                           fs, unstaged)

\* the staging loop of lines 244-255 over newFiles: a failed Add is logged
\* and the loop goes on
RECURSIVE StageNewFiles(_, _, _, _)
StageNewFiles(files, idx, fs, unstaged) ==
    IF files = <<>> THEN idx
    ELSE StageNewFiles(Tail(files),
                       WorktreeAdd(Rel(TargetDir, Head(files)), idx, fs, unstaged),
                       fs, unstaged)

\* worktree.Commit(msg, {Author}): a commit of the index on top of the branch
\* WorktreeCommit with the author time left to the library, which takes the
\* time of the call: later than every folder's creation time
WorktreeCommitNow(msg, name, email, when, idx, history) ==
    Append(history, [Message |-> msg, Name |-> name, Email |-> email,
                     When |-> MaxTime + 1, Tree |-> idx])

WorktreeCommit(msg, name, email, when, idx, history) ==
    Append(history, [Message |-> msg, Name |-> name, Email |-> email,
                     When |-> when, Tree |-> idx])

\* strings.ReplaceAll(s, old, new) for a non-empty old
RECURSIVE ReplaceAll(_, _, _)
ReplaceAll(s, old, new) ==
    IF s = <<>> THEN <<>>
    ELSE IF HasPrefix(s, old)
         THEN new \o ReplaceAll(SubSeq(s, Len(old) + 1, Len(s)), old, new)
         ELSE <<Head(s)>> \o ReplaceAll(Tail(s), old, new)

\* fmt.Sprintf("%d", n) for n >= 0
RECURSIVE FormatInt(_)
FormatInt(n) ==
    IF n < 10 THEN <<Digit(n)>> ELSE FormatInt(n \div 10) \o <<Digit(n % 10)>>

\* the commit message of lines 229-242
CommitMessage(cfg, folder, count, authorName) ==
    IF cfg.MessageTemplate # <<>>
    THEN LET m1 == ReplaceAll(cfg.MessageTemplate, <<"{", "v", "e", "r", "s", "i", "o", "n", "}">>, folder.Version)
             m2 == ReplaceAll(m1, <<"{", "f", "o", "l", "d", "e", "r", "}">>, folder.Path)
             m3 == ReplaceAll(m2, <<"{", "d", "a", "t", "e", "}">>, FormatTime(folder.CreationTime))
             m4 == ReplaceAll(m3, <<"{", "f", "i", "l", "e", "s", "}">>, FormatInt(count))
         IN  ReplaceAll(m4, <<"{", "a", "u", "t", "h", "o", "r", "}">>, authorName)
    ELSE DefaultMessage(folder.Version, folder.Path, FormatTime(folder.CreationTime))

---------------------------------------------------------------------------
(* MigrateToGit *)

\* the Configs of the calls: every combination of DryRun and Append, the
\* default author, no authors file and no message template
Configs ==
    [ DryRun : BOOLEAN, Append : BOOLEAN,
      Author : {<<"D", "e", "v", "e", "l", "o", "p", "e", "r">>}, Email : {<<"d", "e", "v", "@", "e", "x", "a", "m", "p", "l", "e", ".", "c", "o", "m">>},
      AuthorsFile : {<<>>}, MessageTemplate : {<<>>} ]

\* the comparison of line 99 turned around
Greater(a, b) == a.CreationTime > b.CreationTime

\* the comparison handed to sort.Slice (line 99)
Less(a, b) == a.CreationTime < b.CreationTime

\* sort.Slice on a slice of fewer than 12 elements is an insertion sort:
\* the element at k moves down while it is Less than the one before it
RECURSIVE MoveDown(_, _)
MoveDown(data, k) ==
    IF k > 1 /\ Less(data[k], data[k - 1])
    THEN MoveDown([data EXCEPT ![k] = data[k - 1], ![k - 1] = data[k]], k - 1)
    ELSE data

RECURSIVE InsertionSort(_, _)
InsertionSort(data, k) ==
    IF k > Len(data) THEN data ELSE InsertionSort(MoveDown(data, k), k + 1)

SortSlice(data) == InsertionSort(data, 2)

\* the elements of a finite set, as a sequence
RECURSIVE SetToSeq(_)
SetToSeq(set) ==
    IF set = {} THEN <<>>
    ELSE LET x == CHOOSE y \in set : TRUE IN <<x>> \o SetToSeq(set \ {x})

\* the folder lists of the calls: what FindVersionedFolders returns for the
\* source directory under some glob pattern, that is, some of the folders
\* (at least one), sorted by creation time
FolderLists ==
    { SortSlice(SetToSeq({ FolderInfo(q) : q \in chosen })) :
        chosen \in (SUBSET FolderPaths) \ {{}} }

Snapshot ==
    [ targetExists |-> targetExists, gitDir |-> gitDir, tree |-> tree,
      index |-> index, commits |-> commits ]

NoSnapshot ==
    [ targetExists |-> FALSE, gitDir |-> FALSE, tree |-> EmptyTree,
      index |-> NoFiles, commits |-> <<>> ]

NoConfig ==
    [ DryRun |-> FALSE, Append |-> FALSE, Author |-> <<>>, Email |-> <<>>,
      AuthorsFile |-> <<>>, MessageTemplate |-> <<>> ]

\* what the file system or the git library does to one step of a call: no
\* failure, or one failure of the named kind (at the named path)
NoFault == [kind |-> "none", path |-> <<>>]

Fault(kind, path) == [kind |-> kind, path |-> path]

\* at most one operation of a behaviour fails
Allowed(fault) == fault = NoFault \/ ~faulted

Count(fault) == faulted \/ fault # NoFault

\* the failures of lines 125-189: os.MkdirAll, or one of the library calls
\* that initialise or open the repository and read its references
BeginFaults(cfg) ==
    {NoFault} \cup
        IF cfg.DryRun THEN {}
        ELSE {Fault("mkdir", <<>>)}
                 \cup IF cfg.Append /\ ~gitDir THEN {} ELSE {Fault("repo", <<>>)}

\* lines 120-123: the dry-run guard returns before anything is touched
DryRunReturn ==
    /\ pc' = "done"
    /\ result' = "ok"
    /\ pos' = 0
    /\ existingVersions' = {}
    /\ UNCHANGED <<targetExists, gitDir, index>>

\* the condition of line 141 without the append flag: a repository is
\* initialised wherever none is found
MustInitAlways(cfg) == ~gitDir

\* line 141: a repository is initialised when none is found and the call
\* is not in append mode
MustInit(cfg) == ~gitDir /\ ~cfg.Append

\* lines 125-189: the target directory is created, the repository is
\* initialised or opened (or is missing, in append mode), and in append mode
\* the existing versions are scanned
Acquire(cfg, fault) ==
    IF fault.kind = "mkdir"
    THEN /\ pc' = "done"
         /\ result' = "DirectoryCreateFailed"
         /\ pos' = 0
         /\ existingVersions' = {}
         /\ UNCHANGED <<targetExists, gitDir, index>>
    ELSE /\ targetExists' = TRUE
         /\ IF fault.kind = "repo"
            THEN /\ pc' = "done"
                 /\ result' = IF gitDir THEN "RepositoryOpenFailed"
                                        ELSE "RepositoryInitFailed"
                 /\ pos' = 0
                 /\ existingVersions' = {}
                 /\ UNCHANGED <<gitDir, index>>
            ELSE IF MustInit(cfg)
            THEN /\ gitDir' = TRUE
                 /\ index' = NoFiles
                 /\ pc' = "loop"
                 /\ result' = ""
                 /\ pos' = 1
                 /\ existingVersions' = {}
            ELSE IF cfg.Append /\ ~gitDir
            THEN /\ pc' = "done"
                 /\ result' = "RepositoryNotFound"
                 /\ pos' = 0
                 /\ existingVersions' = {}
                 /\ UNCHANGED <<gitDir, index>>
            ELSE /\ pc' = "loop"
                 /\ result' = ""
                 /\ pos' = 1
                 /\ existingVersions' =
                        IF cfg.Append THEN ExistingVersions(commits) ELSE {}
                 /\ UNCHANGED <<gitDir, index>>

\* lines 119-189, the start of a call: what the call is given, and what the
\* properties remember of the target
Enter(cfg, fl, fault) ==
    /\ Allowed(fault)
    /\ faulted' = Count(fault)
    /\ config' = cfg
    /\ folders' = fl
    /\ pre' = Snapshot
    /\ fileCount' = 0
    /\ newFiles' = <<>>
    /\ copiedFolders' = 0
    /\ UNCHANGED <<tree, commits>>

\* Begin without the dry-run guard of lines 120-123
BeginUnguarded(cfg, fl, fault) ==
    /\ Enter(cfg, fl, fault)
    /\ Acquire(cfg, fault)

Begin(cfg, fl, fault) ==
    /\ Enter(cfg, fl, fault)
    /\ IF cfg.DryRun THEN DryRunReturn ELSE Acquire(cfg, fault)

\* a call MigrateToGit(cfg, fl)
MigrateToGit(cfg, fl) ==
    /\ pc = "idle"
    /\ runs < MaxRuns
    /\ runs' = runs + 1
    /\ rerun' = FALSE
    /\ \E fault \in BeginFaults(cfg) : Begin(cfg, fl, fault)
    /\ UNCHANGED <<notMigrate>>

\* the caller repeats an append call that succeeded, with the same arguments
MigrateAgain ==
    /\ pc = "done"
    /\ result = "ok"
    /\ config.Append /\ ~config.DryRun
    /\ ~rerun
    /\ rerun' = TRUE
    /\ \E fault \in BeginFaults(config) : Begin(config, folders, fault)
    /\ UNCHANGED <<runs, notMigrate>>

\* lines 192-197: a folder whose version is in existingVersions is skipped
SkipExisting ==
    /\ pc = "loop"
    /\ pos <= Len(folders)
    /\ config.Append /\ folders[pos].Version \in existingVersions
    /\ pos' = pos + 1
    /\ UNCHANGED <<targetVars, pc, config, folders, existingVersions, fileCount,
                   newFiles, result, auxVars, notMigrate>>

\* the failures of lines 201-212: in the clear, os.ReadDir of the target or
\* of a directory below it and os.Lstat of an entry (clearDirectory returns
\* the error) and os.Remove of an entry (logged); in the copy, copyFile of
\* one file
MaterializeFaults ==
    {NoFault}
        \cup (IF config.Append THEN {}
              ELSE {Fault("readdir", d) : d \in {<<>>} \cup tree.dirs}
                       \cup {Fault("lstat", p) : p \in (DOMAIN tree.files) \cup tree.dirs}
                       \cup {Fault("remove", p) : p \in (DOMAIN tree.files) \cup tree.dirs})
        \cup {Fault("copy", p) : p \in FilteredFiles(folders[pos].Path)}

\* lines 201-212: in non-append mode the target is cleared; then the
\* folder's files are copied
Materialize ==
    /\ pc = "loop"
    /\ pos <= Len(folders)
    /\ ~(config.Append /\ folders[pos].Version \in existingVersions)
    /\ \E fault \in MaterializeFaults :
        /\ Allowed(fault)
        /\ faulted' = Count(fault)
        /\ LET broken == IF fault.kind = "copy" THEN {fault.path} ELSE {}
               cleared == IF ~config.Append
                          THEN ClearTarget(tree, gitDir, {fault})
                          ELSE [fs |-> tree, git |-> gitDir, err |-> FALSE]
               copied == copyFilesAndTrack(folders[pos].Path, cleared.fs,
                                           config.Append, broken)
           IN  /\ gitDir' = cleared.git
               /\ index' = IF cleared.git THEN index ELSE NoFiles
               /\ commits' = IF cleared.git THEN commits ELSE <<>>
               /\ IF cleared.err
                  THEN /\ tree' = cleared.fs
                       /\ pc' = "done"
                       /\ result' = "DirectoryClearFailed"
                       /\ UNCHANGED <<fileCount, newFiles, copiedFolders>>
                  ELSE /\ tree' = copied.fs
                       /\ fileCount' = copied.fileCount
                       /\ newFiles' = copied.newFiles
                       /\ pc' = IF copied.err THEN "done" ELSE "copied"
                       /\ result' = IF copied.err THEN "FileCopyFailed" ELSE result
                       /\ copiedFolders' = IF ~copied.err /\ copied.fileCount # 0
                                           THEN copiedFolders + 1 ELSE copiedFolders
    /\ UNCHANGED <<targetExists, config, folders, pos,
                   existingVersions, pre, rerun, runs, notMigrate>>

\* lines 214-217 with a return of an error in place of the continue
SkipEmptyAbort ==
    /\ pc = "copied"
    /\ fileCount = 0
    /\ pc' = "done"
    /\ result' = "NoFilesCopied"
    /\ UNCHANGED <<targetVars, config, folders, pos, existingVersions, fileCount,
                   newFiles, auxVars, notMigrate>>

\* lines 214-217: nothing was copied, no commit
SkipEmpty ==
    /\ pc = "copied"
    /\ fileCount = 0
    /\ pc' = "loop"
    /\ pos' = pos + 1
    /\ UNCHANGED <<targetVars, config, folders, existingVersions, fileCount,
                   newFiles, result, auxVars, notMigrate>>

\* a line of an authors-mapping file: its fields, which a colon separates,
\* whether it is a comment (a leading "#"), and whether white space
\* surrounds it
Line(fields, comment, pad) == [fields |-> fields, comment |-> comment, pad |-> pad]

AuthorLines ==
    { Line(<<>>, FALSE, FALSE),
      Line(<<>>, FALSE, TRUE),
      Line(<<<<"1", ".", "0">>, <<"A">>, <<"a">>>>, FALSE, FALSE),
      Line(<<<<"1", ".", "0">>, <<"A">>, <<"a">>>>, FALSE, TRUE),
      Line(<<<<"1", ".", "0">>, <<"A">>, <<"a">>>>, TRUE, FALSE),
      Line(<<<<"1", ".", "0">>, <<"B">>, <<"b">>>>, FALSE, FALSE),
      Line(<<<<"1", ".", "0">>, <<"B">>>>, FALSE, FALSE),
      Line(<<<<"1", ".", "0">>, <<"B">>, <<>>>>, FALSE, FALSE),
      Line(<<<<"1", ".", "0">>, <<>>, <<"b">>>>, FALSE, FALSE),
      Line(<<<<"1", ".", "0">>, <<"A">>, <<"a">>, <<"z">>>>, FALSE, FALSE),
      Line(<<<<"1", ".", "2">>, <<"C">>, <<"c">>>>, FALSE, FALSE) }

\* the text of a line
RECURSIVE JoinFields(_)
JoinFields(fields) ==
    IF fields = <<>> THEN <<>>
    ELSE IF Len(fields) = 1 THEN fields[1]
    ELSE fields[1] \o <<":">> \o JoinFields(Tail(fields))

LineText(line) ==
    LET text == (IF line.comment THEN <<"#">> ELSE <<>>) \o JoinFields(line.fields)
    IN  IF line.pad THEN <<" ">> \o text \o <<"\t">> ELSE text

\* os.ReadFile of the authors-mapping file (line 478): an error, or the
\* texts of the file's lines joined by line feeds
RECURSIVE JoinLines(_)
JoinLines(ls) ==
    IF ls = <<>> THEN <<>>
    ELSE IF Len(ls) = 1 THEN ls[1]
    ELSE ls[1] \o <<"\n">> \o JoinLines(Tail(ls))

ReadFile(path) ==
    IF auReadable
    THEN [err |-> FALSE,
          data |-> JoinLines([k \in DOMAIN auLines |-> LineText(auLines[k])])]
    ELSE [err |-> TRUE, data |-> <<>>]

\* the loop of lines 484-494 over the lines of the file
RECURSIVE AuthorOfLines(_, _)
AuthorOfLines(version, ls) ==
    IF ls = <<>> THEN [name |-> <<>>, email |-> <<>>, err |-> FALSE]
    ELSE LET line == TrimSpace(Head(ls))
             parts == Split(line, ":")
         IN  IF line = <<>> \/ HasPrefix(line, <<"#">>)
             THEN AuthorOfLines(version, Tail(ls))
             ELSE IF Len(parts) >= 3 /\ parts[1] = version
             THEN [name |-> parts[2], email |-> parts[3], err |-> FALSE]
             ELSE AuthorOfLines(version, Tail(ls))

\* getAuthorInfo(version, authorsFile), lines 473-497
getAuthorInfo(version, authorsFile) ==
    IF authorsFile = <<>> THEN [name |-> <<>>, email |-> <<>>, err |-> FALSE]
    ELSE LET file == ReadFile(authorsFile)
         IN  IF file.err THEN [name |-> <<>>, email |-> <<>>, err |-> TRUE]
             ELSE AuthorOfLines(version, Split(file.data, "\n"))

\* lines 219-227 with both fields taken from the file one by one: each of
\* them whenever it is not empty
ResolveAuthorMixed(cfg, version) ==
    LET info == IF cfg.AuthorsFile = <<>>
                THEN [name |-> <<>>, email |-> <<>>, err |-> FALSE]
                ELSE getAuthorInfo(version, cfg.AuthorsFile)
    IN  [ Name |-> IF ~info.err /\ info.name # <<>> THEN info.name ELSE cfg.Author,
          Email |-> IF ~info.err /\ info.email # <<>> THEN info.email ELSE cfg.Email ]

\* lines 219-227: the author of the commit of a folder
ResolveAuthor(cfg, version) ==
    LET info == IF cfg.AuthorsFile = <<>>
                THEN [name |-> <<>>, email |-> <<>>, err |-> FALSE]
                ELSE getAuthorInfo(version, cfg.AuthorsFile)
    IN  IF cfg.AuthorsFile # <<>> /\ ~info.err /\ info.name # <<>> /\ info.email # <<>>
        THEN [Name |-> info.name, Email |-> info.email]
        ELSE [Name |-> cfg.Author, Email |-> cfg.Email]

\* the tree of the commit the branch points at
ParentTree(history) ==
    IF history = <<>> THEN NoFiles ELSE history[Len(history)].Tree

\* what worktree.Commit does with an index that equals the parent's tree:
\* go-git creates the empty commit or returns ErrEmptyCommit, depending on
\* its version
RejectsEmpty(idx, history) ==
    IF idx = ParentTree(history) THEN BOOLEAN ELSE {FALSE}

\* the failures of lines 244-268: worktree.Add of one file (logged), or
\* worktree.Commit
CommitFaults ==
    {NoFault, Fault("commit", <<>>)}
        \cup {Fault("add", Rel(TargetDir, newFiles[k])) : k \in DOMAIN newFiles}

\* lines 219-270 with the failure of worktree.Commit logged like a failure
\* of worktree.Add: the loop goes on with the next folder
StageAndCommitLogged ==
    /\ pc = "copied"
    /\ fileCount # 0
    /\ \E fault \in CommitFaults :
        /\ Allowed(fault)
        /\ faulted' = Count(fault)
        /\ LET folder == folders[pos]
               author == ResolveAuthor(config, folder.Version)
               commitMsg == CommitMessage(config, folder, fileCount, author.Name)
               unstaged == IF fault.kind = "add" THEN {fault.path} ELSE {}
               staged == StageNewFiles(newFiles, index, tree, unstaged)
           IN  /\ index' = staged
               /\ \E rejected \in RejectsEmpty(staged, commits) :
                  commits' = IF fault.kind = "commit" \/ rejected
                             THEN commits
                             ELSE WorktreeCommit(commitMsg, author.Name, author.Email,
                                                 folder.CreationTime, staged, commits)
               /\ pc' = "loop"
               /\ pos' = pos + 1
               /\ UNCHANGED result
    /\ UNCHANGED <<targetExists, gitDir, tree, config, folders, existingVersions,
                   fileCount, newFiles, pre, rerun, runs, copiedFolders, notMigrate>>

\* lines 219-270: the author, the message, the staging of newFiles and the
\* commit, authored at the folder's CreationTime
StageAndCommit ==
    /\ pc = "copied"
    /\ fileCount # 0
    /\ \E fault \in CommitFaults :
        /\ Allowed(fault)
        /\ faulted' = Count(fault)
        /\ LET folder == folders[pos]
               author == ResolveAuthor(config, folder.Version)
               commitMsg == CommitMessage(config, folder, fileCount, author.Name)
               unstaged == IF fault.kind = "add" THEN {fault.path} ELSE {}
               staged == StageNewFiles(newFiles, index, tree, unstaged)
           IN  /\ index' = staged
               /\ \E rejected \in RejectsEmpty(staged, commits) :
                  IF fault.kind = "commit" \/ rejected
                  THEN /\ pc' = "done"
                       /\ result' = "CommitFailed"
                       /\ UNCHANGED <<commits, pos>>
                  ELSE /\ commits' = WorktreeCommit(commitMsg, author.Name, author.Email,
                                                    folder.CreationTime, staged, commits)
                       /\ pc' = "loop"
                       /\ pos' = pos + 1
                       /\ UNCHANGED result
    /\ UNCHANGED <<targetExists, gitDir, tree, config, folders, existingVersions,
                   fileCount, newFiles, pre, rerun, runs, copiedFolders, notMigrate>>

\* line 273: every folder was processed
MigrateReturn ==
    /\ pc = "loop"
    /\ pos > Len(folders)
    /\ pc' = "done"
    /\ result' = "ok"
    /\ UNCHANGED <<targetVars, config, folders, pos, existingVersions, fileCount,
                   newFiles, auxVars, notMigrate>>

\* the caller is done with the call
Forget ==
    /\ pc = "done"
    /\ pc' = "idle"
    /\ config' = NoConfig
    /\ folders' = <<>>
    /\ pos' = 0
    /\ existingVersions' = {}
    /\ fileCount' = 0
    /\ newFiles' = <<>>
    /\ result' = ""
    /\ pre' = NoSnapshot
    /\ rerun' = FALSE
    /\ copiedFolders' = 0
    /\ UNCHANGED <<targetVars, runs, faulted, notMigrate>>

\* the target before the first call: absent, or a directory holding a file
\* of the user's; no repository
InitialTrees ==
    { [files |-> (<<<<"a">>>> :> UserContent), dirs |-> {}] }

RoundTripIdle ==
    /\ rtVersion = <<>>
    /\ rtMsg = <<>>
    /\ rtScan = <<>>
    /\ rtpc = "off"

MigrateIdle ==
    /\ gitDir = FALSE
    /\ index = NoFiles
    /\ commits = <<>>
    /\ pc = "idle"
    /\ config = NoConfig
    /\ folders = <<>>
    /\ pos = 0
    /\ existingVersions = {}
    /\ fileCount = 0
    /\ newFiles = <<>>
    /\ result = ""
    /\ pre = NoSnapshot
    /\ rerun = FALSE
    /\ runs = 0
    /\ faulted = FALSE
    /\ copiedFolders = 0

FindIdle ==
    /\ matches = <<>>
    /\ found = <<>>
    /\ findErr = ""
    /\ findpc = "off"
    /\ findConfig = [ExtractPattern |-> <<>>, GlobOk |-> TRUE]
    /\ examined = 0

\* no authors-mapping file is there to read
AuthorIdle ==
    /\ auLines = <<>>
    /\ auReadable = FALSE
    /\ auConfig = NoConfig
    /\ auVersion = <<>>
    /\ auAuthor = [Name |-> <<>>, Email |-> <<>>]
    /\ aupc = "off"

\* no call of clearDirectory apart from those of MigrateToGit
ClearIdle ==
    /\ clDir = TargetDir
    /\ clTree = EmptyTree
    /\ clFaults = {}
    /\ clResult = [fs |-> EmptyTree, err |-> FALSE]
    /\ clpc = "off"

\* no call of getFolderCreationTime
TimeIdle ==
    /\ tmRoot = <<>>
    /\ tmWalk = <<>>
    /\ tmTimes = <<>>
    /\ tmProcessed = 0
    /\ tmResult = 0
    /\ tmpc = "off"

\* no commit message apart from those of MigrateToGit
MessageIdle ==
    /\ msConfig = NoConfig
    /\ msFolder = [Path |-> <<>>, Version |-> <<>>, CreationTime |-> 0]
    /\ msCount = 0
    /\ msResult = <<>>
    /\ mspc = "off"

\* no copy apart from those of MigrateToGit
AppendIdle ==
    /\ apTree = EmptyTree
    /\ apSrc = <<>>
    /\ apBroken = {}
    /\ apResult = [fs |-> EmptyTree, fileCount |-> 0, newFiles |-> <<>>, err |-> FALSE]
    /\ appc = "off"

\* the number of goroutines the window can hold at a time
MaxRoutines == 2

\* a goroutine that does not run
NoRoutine == [pc |-> "off", folders |-> 0]

\* no window
GUIIdle ==
    /\ sourceEntry = <<>>
    /\ targetEntry = <<>>
    /\ dryRunCheck = FALSE
    /\ guiConfig = [SourceDir |-> <<>>, TargetDir |-> <<>>, DryRun |-> FALSE]
    /\ convertButton = [enabled |-> FALSE, text |-> "none"]
    /\ goroutines = [id \in 1..MaxRoutines |-> NoRoutine]
    /\ shown = "none"
    /\ guipc = "off"

Init ==
    /\ targetExists \in BOOLEAN
    /\ tree \in IF targetExists THEN InitialTrees ELSE {EmptyTree}
    /\ MigrateIdle
    /\ RoundTripIdle
    /\ FindIdle
    /\ AuthorIdle
    /\ ClearIdle
    /\ TimeIdle
    /\ MessageIdle
    /\ AppendIdle
    /\ GUIIdle

Next ==
    \/ \E cfg \in Configs, fl \in FolderLists : MigrateToGit(cfg, fl)
    \/ MigrateAgain
    \/ SkipExisting
    \/ Materialize
    \/ SkipEmpty
    \/ StageAndCommit
    \/ MigrateReturn
    \/ Forget

Spec == Init /\ [][Next]_vars

---------------------------------------------------------------------------
(* The round trip of the default message: a folder's version token is
   formatted into the message of its commit (lines 238-241) and the scan of
   a later append call reads it back (lines 171-175). *)

\* the characters of the version tokens
VersionChars == {"1", ".", ":", " "}

\* the version tokens: every non-empty string of at most MaxVerLen characters
\* (the extraction pattern is the user's, the match is never empty, line 73)
VersionTokens == UNION { [1..n -> VersionChars] : n \in 1..MaxVerLen }

RoundTripInit ==
    /\ rtVersion \in VersionTokens
    /\ rtMsg = <<>>
    /\ rtScan = <<>>
    /\ rtpc = "start"

\* lines 238-241, for a folder named "v" followed by its version
FormatMessage ==
    /\ rtpc = "start"
    /\ \E t \in 0..MaxTime :
           rtMsg' = DefaultMessage(rtVersion, <<"v">> \o rtVersion, FormatTime(t))
    /\ rtpc' = "formatted"
    /\ UNCHANGED <<rtVersion, rtScan, notRoundTrip>>

\* lines 171-175
ScanMessage ==
    /\ rtpc = "formatted"
    /\ rtScan' = ScanVersion(rtMsg)
    /\ rtpc' = "scanned"
    /\ UNCHANGED <<rtVersion, rtMsg, notRoundTrip>>

RoundTripNext == FormatMessage \/ ScanMessage

\* the round trip alone: nothing else of the program runs
RoundTripStart ==
    /\ targetExists = FALSE
    /\ tree = EmptyTree
    /\ MigrateIdle
    /\ FindIdle
    /\ AuthorIdle
    /\ ClearIdle
    /\ TimeIdle
    /\ MessageIdle
    /\ AppendIdle
    /\ GUIIdle
    /\ RoundTripInit

SpecRoundTrip == RoundTripStart /\ [][RoundTripNext]_vars

---------------------------------------------------------------------------
(* FindVersionedFolders *)

IsDigit(c) == c \in {"0", "1", "2", "3", "4", "5", "6", "7", "8", "9"}

\* the length of the longest run of digits at the start of s
RECURSIVE DigitRun(_)
DigitRun(s) == IF s # <<>> /\ IsDigit(Head(s)) THEN 1 + DigitRun(Tail(s)) ELSE 0

\* the match of [0-9]+(\.[0-9]+)? at the start of s, <<>> when there is none
MatchHere(s) ==
    LET n == DigitRun(s)
        rest == SubSeq(s, n + 1, Len(s))
        m == IF rest # <<>> /\ Head(rest) = "." THEN DigitRun(Tail(rest)) ELSE 0
    IN  IF n = 0 THEN <<>>
        ELSE IF m = 0 THEN SubSeq(s, 1, n)
        ELSE SubSeq(s, 1, n + 1 + m)

\* re.FindString(name) for the extraction pattern [0-9]+(\.[0-9]+)?, the
\* default of the caller: the leftmost match, <<>> when there is none
RECURSIVE FindString(_)
FindString(name) ==
    IF name = <<>> THEN <<>>
    ELSE IF MatchHere(name) # <<>> THEN MatchHere(name)
    ELSE FindString(Tail(name))

\* the extraction patterns of the calls: the caller's default, the empty
\* pattern, and a pattern with a character class that is not closed
DefaultPattern == <<"[", "0", "-", "9", "]", "+", "(", "\\", ".", "[", "0", "-", "9", "]", "+", ")", "?">>

EmptyPattern == <<>>

BrokenPattern == <<"[", "0", "-", "9">>

ExtractPatterns == {DefaultPattern, EmptyPattern, BrokenPattern}

\* regexp.Compile(pattern) succeeds (line 49), for patterns whose only
\* possible flaw is a character class left open
RECURSIVE ClassesClosed(_, _)
ClassesClosed(pattern, open) ==
    IF pattern = <<>> THEN ~open
    ELSE IF Head(pattern) = "\\" /\ Len(pattern) >= 2
    THEN ClassesClosed(Tail(Tail(pattern)), open)
    ELSE IF Head(pattern) = "[" /\ ~open THEN ClassesClosed(Tail(pattern), TRUE)
    ELSE IF Head(pattern) = "]" /\ open THEN ClassesClosed(Tail(pattern), FALSE)
    ELSE ClassesClosed(Tail(pattern), open)

Compiles(pattern) == ClassesClosed(pattern, FALSE)

\* re.FindString(name) for a compiled extraction pattern (line 73); the
\* empty pattern matches the empty string at the start of every name
ReFindString(pattern, name) ==
    IF pattern = DefaultPattern THEN FindString(name) ELSE <<>>

\* the loop of lines 60-95 without the check of lines 63-65: a match that
\* is no directory is taken as well
RECURSIVE CollectMatches(_, _)
CollectMatches(pattern, ms) ==
    IF ms = <<>> THEN <<>>
    ELSE LET m == Head(ms)
             version == ReFindString(pattern, m.Name)
         IN  IF version = <<>> THEN CollectMatches(pattern, Tail(ms))
             ELSE << [Path |-> m.Name, Version |-> version,
                      CreationTime |-> m.CreationTime] >>
                      \o CollectMatches(pattern, Tail(ms))

\* the loop of lines 60-95 over the matches: a match that is no directory
\* or whose name holds no version is skipped
RECURSIVE CollectFolders(_, _)
CollectFolders(pattern, ms) ==
    IF ms = <<>> THEN <<>>
    ELSE LET m == Head(ms)
             version == ReFindString(pattern, m.Name)
         IN  IF ~m.IsDir \/ version = <<>> THEN CollectFolders(pattern, Tail(ms))
             ELSE << [Path |-> m.Name, Version |-> version,
                      CreationTime |-> m.CreationTime] >>
                      \o CollectFolders(pattern, Tail(ms))

\* lines 102-104 left out: the sorted list is returned as it is
FindResultUnchecked(sorted, looked) ==
    [found |-> sorted, err |-> "", examined |-> looked]

\* lines 102-115: the error for an empty list, the sorted list otherwise
FindResult(sorted, looked) ==
    IF Len(sorted) = 0
    THEN [found |-> <<>>, err |-> "NoFoldersFound", examined |-> looked]
    ELSE [found |-> sorted, err |-> "", examined |-> looked]

\* FindVersionedFolders(config), lines 42-116: the pattern is compiled, the
\* glob is run, every match is looked at, the folders are sorted
Discover(cfg, ms) ==
    IF ~Compiles(cfg.ExtractPattern)
    THEN [found |-> <<>>, err |-> "InvalidPattern", examined |-> 0]
    ELSE IF ~cfg.GlobOk
    THEN [found |-> <<>>, err |-> "GlobFailed", examined |-> 0]
    ELSE FindResult(SortSlice(CollectFolders(cfg.ExtractPattern, ms)), Len(ms))

\* the base names of the entries of the source directory, in the order
\* filepath.Glob lists them
GlobNames == << <<"n", "o", "t", "e", "s">>, <<"v", "1", ".", "0">>, <<"v", "1", ".", "2">>, <<"v", "2", "-", "3">> >>

\* the subsequence of s at the positions in keep
RECURSIVE Pick(_, _, _)
Pick(s, keep, k) ==
    IF k > Len(s) THEN <<>>
    ELSE (IF k \in keep THEN <<s[k]>> ELSE <<>>) \o Pick(s, keep, k + 1)

\* the possible results of the glob: some of the names, each a directory or
\* not, each with a creation time
MatchLists ==
    UNION { { [k \in DOMAIN Pick(GlobNames, keep, 1) |->
                 [Name |-> Pick(GlobNames, keep, 1)[k], IsDir |-> d[k],
                  CreationTime |-> t[k]]] :
              d \in [1..Cardinality(keep) -> BOOLEAN],
              t \in [1..Cardinality(keep) -> 1..MaxTime] } :
            keep \in SUBSET (DOMAIN GlobNames) }

FindInit ==
    /\ findConfig \in [ExtractPattern : ExtractPatterns, GlobOk : BOOLEAN]
    /\ matches \in IF findConfig.GlobOk THEN MatchLists ELSE {<<>>}
    /\ found = <<>>
    /\ findErr = ""
    /\ examined = 0
    /\ findpc = "start"

\* one call FindVersionedFolders(config)
FindVersionedFolders ==
    /\ findpc = "start"
    /\ LET r == Discover(findConfig, matches)
       IN  /\ found' = r.found
           /\ findErr' = r.err
           /\ examined' = r.examined
    /\ findpc' = "returned"
    /\ UNCHANGED <<matches, findConfig, notFind>>

\* the discovery alone: nothing else of the program runs
FindStart ==
    /\ targetExists = FALSE
    /\ tree = EmptyTree
    /\ MigrateIdle
    /\ RoundTripIdle
    /\ AuthorIdle
    /\ ClearIdle
    /\ TimeIdle
    /\ MessageIdle
    /\ AppendIdle
    /\ GUIIdle
    /\ FindInit

FindNext == FindVersionedFolders

SpecFind == FindStart /\ [][FindNext]_vars

---------------------------------------------------------------------------
(* The author of a commit: lines 219-227 and getAuthorInfo *)

\* the longest authors-mapping file, in lines
MaxLines == 2

\* the authors-mapping files: up to MaxLines lines
AuthorFiles == UNION { [1..n -> AuthorLines] : n \in 0..MaxLines }

\* the configurations of a resolution: with and without an authors file
AuthorConfigs ==
    { [cfg EXCEPT !.AuthorsFile = f] :
        cfg \in { c \in Configs : ~c.DryRun /\ ~c.Append },
        f \in {<<>>, <<"a", "u", "t", "h", "o", "r", "s", ".", "t", "x", "t">>} }

AuthorInit ==
    /\ auReadable \in BOOLEAN
    /\ auLines \in IF auReadable THEN AuthorFiles ELSE {<<>>}
    /\ auConfig \in AuthorConfigs
    /\ auVersion \in {<<"1", ".", "0">>, <<"1", ".", "3">>}
    /\ auAuthor = [Name |-> <<>>, Email |-> <<>>]
    /\ aupc = "start"

\* lines 219-227, for a folder of version auVersion
Resolve ==
    /\ aupc = "start"
    /\ auAuthor' = ResolveAuthor(auConfig, auVersion)
    /\ aupc' = "resolved"
    /\ UNCHANGED <<auLines, auReadable, auConfig, auVersion, notAuthor>>

\* the resolution alone: nothing else of the program runs
AuthorStart ==
    /\ targetExists = FALSE
    /\ tree = EmptyTree
    /\ MigrateIdle
    /\ RoundTripIdle
    /\ FindIdle
    /\ ClearIdle
    /\ TimeIdle
    /\ MessageIdle
    /\ AppendIdle
    /\ GUIIdle
    /\ AuthorInit

AuthorNext == Resolve

SpecAuthor == AuthorStart /\ [][AuthorNext]_vars

---------------------------------------------------------------------------
(* clearDirectory on its own: a directory that holds files, directories,
   symbolic links and entries with protected names, at several depths *)

\* the number of file-system operations that fail during one call
MaxClearFaults == 1

\* the leaves a directory may hold: regular files and symbolic links, at the
\* top and below, some of them below a directory with a protected name
ClearLeaves ==
    { [path |-> <<<<"a">>>>, link |-> FALSE],
      [path |-> <<<<"k">>>>, link |-> TRUE],
      [path |-> <<<<"d">>, <<"c">>>>, link |-> FALSE],
      [path |-> <<<<"d">>, <<"k">>>>, link |-> TRUE],
      [path |-> <<<<"d">>, <<"b", "i", "n">>, <<"x">>>>, link |-> FALSE],
      [path |-> <<<<"d">>, <<"e">>, <<"f">>>>, link |-> FALSE],
      [path |-> <<<<"t", "m", "p">>, <<"x">>>>, link |-> FALSE],
      [path |-> GitHead, link |-> FALSE] }

\* the tree that holds a set of leaves and the directories they are in
TreeOf(leaves) ==
    [ files |-> [p \in { l.path : l \in leaves } |->
                    IF [path |-> p, link |-> TRUE] \in leaves
                    THEN LinkContent ELSE UserContent],
      dirs |-> ParentDirs({ l.path : l \in leaves }) ]

ClearTrees == { TreeOf(leaves) : leaves \in SUBSET ClearLeaves }

\* the operations of a call on a tree that may fail
ClearFaults(fs) ==
    {Fault("readdir", d) : d \in {<<>>} \cup fs.dirs}
        \cup {Fault("lstat", p) : p \in (DOMAIN fs.files) \cup fs.dirs}
        \cup {Fault("remove", p) : p \in (DOMAIN fs.files) \cup fs.dirs}

\* the subsets of a set with at most n elements
RECURSIVE UpTo(_, _)
UpTo(set, n) ==
    IF n = 0 THEN {{}}
    ELSE UpTo(set, n - 1) \cup { some \cup {x} : some \in UpTo(set, n - 1), x \in set }

ClearInit ==
    /\ clDir = TargetDir
    /\ clTree \in ClearTrees
    /\ clFaults \in UpTo(ClearFaults(clTree), MaxClearFaults)
    /\ clResult = [fs |-> EmptyTree, err |-> FALSE]
    /\ clpc = "start"

\* one call clearDirectory(clDir)
ClearDirectory ==
    /\ clpc = "start"
    /\ clResult' = clearDirectory(clDir, <<>>, clTree, clFaults)
    /\ clpc' = "cleared"
    /\ UNCHANGED <<clDir, clTree, clFaults, notClear>>

\* the clearing alone: nothing else of the program runs
ClearStart ==
    /\ targetExists = FALSE
    /\ tree = EmptyTree
    /\ MigrateIdle
    /\ RoundTripIdle
    /\ FindIdle
    /\ AuthorIdle
    /\ TimeIdle
    /\ MessageIdle
    /\ AppendIdle
    /\ GUIIdle
    /\ ClearInit

ClearNext == ClearDirectory

SpecClear == ClearStart /\ [][ClearNext]_vars

---------------------------------------------------------------------------
(* clearDirectory's refusals (lines 298-315): calls for directories in
   several places, in which nothing fails *)

\* the directories: the target of the migration; the home directory; below
\* it a hidden directory, one with two dots in its name, a directory in a
\* hidden one, a hidden directory in a plain one and a directory named
\* tmp; outside it a hidden directory, and one below a directory whose
\* name begins like the home directory's
GuardDirs ==
    { TargetDir,
      HomeDir,
      Append(HomeDir, <<".", "r">>),
      Append(HomeDir, <<".", "a", ".", ".", "b">>),
      HomeDir \o << <<".", "h">>, <<"r">> >>,
      HomeDir \o << <<"w">>, <<".", "r">> >>,
      Append(HomeDir, <<"t", "m", "p">>),
      << <<"s", "r", "v">>, <<".", "r">> >>,
      << <<"h", "o", "m", "e">>, <<"u", "2">>, <<".", "r">> >> }

\* what the directories hold
GuardLeaves ==
    { [path |-> <<<<"a">>>>, link |-> FALSE],
      [path |-> <<<<"k">>>>, link |-> TRUE],
      [path |-> <<<<"d">>, <<"c">>>>, link |-> FALSE],
      [path |-> <<<<"t", "m", "p">>, <<"x">>>>, link |-> FALSE] }

GuardInit ==
    /\ clDir \in GuardDirs
    /\ clTree \in { TreeOf(leaves) : leaves \in SUBSET GuardLeaves }
    /\ clFaults = {}
    /\ clResult = [fs |-> EmptyTree, err |-> FALSE]
    /\ clpc = "start"

GuardStart ==
    /\ targetExists = FALSE
    /\ tree = EmptyTree
    /\ MigrateIdle
    /\ RoundTripIdle
    /\ FindIdle
    /\ AuthorIdle
    /\ TimeIdle
    /\ MessageIdle
    /\ AppendIdle
    /\ GUIIdle
    /\ GuardInit

SpecGuard == GuardStart /\ [][ClearNext]_vars

---------------------------------------------------------------------------
(* getFolderCreationTime (lines 499-563): the median of the modification
   times of the folder's files, the key files counted twice *)

\* lines 502-507
keyFilePatterns ==
    << <<"v", "e", "r", "s", "i", "o", "n", ".", "p", "y">>,
       <<"v", "e", "r", "s", "i", "o", "n", ".", "t", "x", "t">>,
       <<"V", "E", "R", "S", "I", "O", "N">>,
       <<"m", "a", "i", "n", ".", "p", "y">>,
       <<"a", "p", "p", ".", "p", "y">>,
       <<"b", "o", "t", ".", "p", "y">>,
       <<"c", "o", "n", "f", "i", "g", ".", "p", "y">>,
       <<"r", "e", "q", "u", "i", "r", "e", "m", "e", "n", "t", "s", ".", "t", "x", "t">>,
       <<"s", "e", "t", "u", "p", ".", "p", "y">>,
       <<"D", "o", "c", "k", "e", "r", "f", "i", "l", "e">>,
       <<"d", "o", "c", "k", "e", "r", "-", "c", "o", "m", "p", "o", "s", "e", ".", "y", "m", "l">> >>

\* line 510: the number of files the walk samples at most.  It is 500 in
\* the program; the walks here are short, and so is the cap, for them to
\* reach it
maxFiles == 3

\* the number of entries of a walk besides the run of plain files at its
\* beginning
MaxTail == 2

\* strings.ToLower, for the letters A to Z
ToLower(s) ==
    [i \in DOMAIN s |->
        IF s[i] \in DOMAIN CharRank /\ CharRank[s[i]] >= CharRank["A"]
                                    /\ CharRank[s[i]] <= CharRank["Z"]
        THEN Chars[CharRank[s[i]] - CharRank["A"] + CharRank["a"]]
        ELSE s[i]]

\* lines 520-524: the walk does not enter the directory
SkipsDir(base) ==
    \/ HasPrefix(base, <<".">>)
    \/ base = <<"_", "_", "p", "y", "c", "a", "c", "h", "e", "_", "_">>
    \/ base = <<"v", "e", "n", "v">>
    \/ base = <<"e", "n", "v">>
    \/ base = <<".", "v", "e", "n", "v">>

\* lines 533-536: the file is not sampled
SkipsFile(base) == HasPrefix(base, <<".">>) \/ HasSuffix(base, <<".", "p", "y", "c">>)

\* lines 542-547: the name holds one of the key patterns, whatever the case
\* of its letters
IsKeyFile(base) ==
    \E i \in DOMAIN keyFilePatterns :
        Contains(ToLower(base), ToLower(keyFilePatterns[i]))

\* lines 533-550: the callback for a file that the cap lets through
Visit(file, acc) ==
    IF SkipsFile(file.name) THEN acc
    ELSE [ fileTimes |-> IF IsKeyFile(file.name)
                         THEN Append(Append(acc.fileTimes, file.mtime), file.mtime)
                         ELSE Append(acc.fileTimes, file.mtime),
           processedFiles |-> acc.processedFiles + 1 ]

\* filepath.Walk over the entries of one directory with the callback of
\* lines 512-551: a directory is entered unless SkipsDir; a file that comes
\* when processedFiles has reached maxFiles returns SkipDir, which ends the
\* walk of the directory the file is in
RECURSIVE WalkEntries(_, _)
WalkEntries(entries, acc) ==
    IF entries = <<>> THEN acc
    ELSE LET e == Head(entries)
         IN  IF e.isDir
             THEN IF SkipsDir(e.name) THEN WalkEntries(Tail(entries), acc)
                  ELSE WalkEntries(Tail(entries), WalkEntries(e.files, acc))
             ELSE IF acc.processedFiles >= maxFiles THEN acc
             ELSE WalkEntries(Tail(entries), Visit(e, acc))

\* the walk from the folder itself, which is a directory as well
WalkFolder(root, entries) ==
    IF SkipsDir(Base(root)) THEN [fileTimes |-> <<>>, processedFiles |-> 0]
    ELSE WalkEntries(entries, [fileTimes |-> <<>>, processedFiles |-> 0])

\* sort.Slice of lines 559-561: the times in non-decreasing order
RECURSIVE Arrange(_, _, _)
Arrange(times, t, last) ==
    IF t > last THEN <<>>
    ELSE [i \in 1..Cardinality({ k \in DOMAIN times : times[k] = t }) |-> t]
             \o Arrange(times, t + 1, last)

SortTimes(times) == Arrange(times, 1, MaxTime)

\* time.Now().Unix(): later than every modification time
TimeNow == MaxTime + 1

\* lines 553-562 with the lower of the two middle elements for a list of
\* even length
MedianLow(fileTimes) ==
    IF Len(fileTimes) = 0 THEN TimeNow
    ELSE SortTimes(fileTimes)[((Len(fileTimes) - 1) \div 2) + 1]

\* lines 553-562: the current time for an empty list, else the element at
\* index len/2 of the sorted list
Median(fileTimes) ==
    IF Len(fileTimes) = 0 THEN TimeNow
    ELSE SortTimes(fileTimes)[(Len(fileTimes) \div 2) + 1]

\* a file and a directory of a walk
File(name, mtime) == [name |-> name, isDir |-> FALSE, mtime |-> mtime, files |-> <<>>]

Directory(name, files) == [name |-> name, isDir |-> TRUE, mtime |-> 0, files |-> files]

\* the names of files: a plain one, key files (one of them in other case
\* and inside a longer name), a hidden one and a compiled one
FileNames ==
    { <<"a">>,
      <<"V", "E", "R", "S", "I", "O", "N">>,
      <<"x", "S", "e", "t", "u", "p", ".", "p", "y", "z">>,
      <<".", "x">>,
      <<"b", ".", "p", "y", "c">> }

\* the entries of a walk: files, and directories (a plain one and two that
\* the walk skips) that hold a key file
WalkItems ==
    { File(n, t) : n \in FileNames, t \in 1..MaxTime }
        \cup { Directory(d, <<File(<<"m", "a", "i", "n", ".", "p", "y">>, MaxTime)>>) :
                 d \in { <<"s">>, <<"v", "e", "n", "v">>, <<".", "d">> }}

\* the sequences of at most n items
RECURSIVE Tails(_)
Tails(n) ==
    IF n = 0 THEN {<<>>}
    ELSE Tails(n - 1) \cup { Append(w, e) : w \in Tails(n - 1), e \in WalkItems }

\* a run of plain files of one modification time
Run(n, t) == [k \in 1..n |-> File(<<"a">>, t)]

\* the walks: nothing, or a run of plain files that ends just below
\* maxFiles, and then some entries
Walks ==
    { Run(n, t) \o w : n \in {0, maxFiles - 1}, t \in {1}, w \in Tails(MaxTail) }

TimeInit ==
    /\ tmRoot \in { <<<<"v", "1">>>>, <<<<".", "v", "1">>>> }
    /\ tmWalk \in Walks
    /\ tmTimes = <<>>
    /\ tmProcessed = 0
    /\ tmResult = 0
    /\ tmpc = "start"

\* one call getFolderCreationTime(tmRoot)
GetFolderCreationTime ==
    /\ tmpc = "start"
    /\ LET walked == WalkFolder(tmRoot, tmWalk)
       IN  /\ tmTimes' = walked.fileTimes
           /\ tmProcessed' = walked.processedFiles
           /\ tmResult' = Median(walked.fileTimes)
    /\ tmpc' = "returned"
    /\ UNCHANGED <<tmRoot, tmWalk, notTime>>

\* the call alone: nothing else of the program runs
TimeStart ==
    /\ targetExists = FALSE
    /\ tree = EmptyTree
    /\ MigrateIdle
    /\ RoundTripIdle
    /\ FindIdle
    /\ AuthorIdle
    /\ ClearIdle
    /\ MessageIdle
    /\ AppendIdle
    /\ GUIIdle
    /\ TimeInit

TimeNext == GetFolderCreationTime

SpecTime == TimeStart /\ [][TimeNext]_vars

---------------------------------------------------------------------------
(* One copy of a folder in append mode (lines 368-438), on the trees that
   earlier copies leave below the target *)

\* the folders of the copies: those of the calls, and a later version in
\* which d, a directory of the first version, is a file
AppendFolders == FolderPaths \cup {PathV14}

\* the trees below the target: empty, the user's, and each of them after
\* the copy of one folder of the calls
AppendTrees ==
    LET bases == {EmptyTree} \cup InitialTrees
    IN  bases \cup { copyFilesAndTrack(q, base, TRUE, {}).fs :
                        q \in FolderPaths, base \in bases }

AppendInit ==
    /\ apTree \in AppendTrees
    /\ apSrc \in AppendFolders
    /\ apBroken \in {{}} \cup { {p} : p \in FilteredFiles(apSrc) }
    /\ apResult = [fs |-> EmptyTree, fileCount |-> 0, newFiles |-> <<>>, err |-> FALSE]
    /\ appc = "start"

\* copyFilesAndTrack(folder.Path, config.TargetDir, true) of line 208
CopyAppend ==
    /\ appc = "start"
    /\ apResult' = copyFilesAndTrack(apSrc, apTree, TRUE, apBroken)
    /\ appc' = "copied"
    /\ UNCHANGED <<apTree, apSrc, apBroken, notAppend>>

\* the copy alone: nothing else of the program runs
AppendStart ==
    /\ targetExists = FALSE
    /\ tree = EmptyTree
    /\ MigrateIdle
    /\ RoundTripIdle
    /\ FindIdle
    /\ AuthorIdle
    /\ ClearIdle
    /\ TimeIdle
    /\ MessageIdle
    /\ GUIIdle
    /\ AppendInit

AppendNext == CopyAppend

SpecAppend == AppendStart /\ [][AppendNext]_vars

---------------------------------------------------------------------------
(* The window of the GUI (part_000): the entries for the two directories,
   the check box of the test mode, the convert button and the goroutines
   that startConversion starts.  What FindVersionedFolders and MigrateToGit
   return is chosen freely; both return. *)

\* the texts of an entry: empty, or a path
EntryTexts == {<<>>, <<"p">>}

\* the window after setupUI (lines 56-150): the entries of the two
\* directories are empty, nothing is checked, the button is enabled
GUIInit ==
    /\ sourceEntry = <<>>
    /\ targetEntry = <<>>
    /\ dryRunCheck = FALSE
    /\ guiConfig = [SourceDir |-> <<>>, TargetDir |-> <<>>, DryRun |-> FALSE]
    /\ convertButton = [enabled |-> TRUE, text |-> "start"]
    /\ goroutines = [id \in 1..MaxRoutines |-> NoRoutine]
    /\ shown = "welcome"
    /\ guipc = "open"

\* the user types into g.sourceEntry or picks a directory (lines 94-103)
EditSource ==
    /\ guipc = "open"
    /\ \E text \in EntryTexts \ {sourceEntry} : sourceEntry' = text
    /\ UNCHANGED <<targetEntry, dryRunCheck, guiConfig, convertButton, goroutines,
                   shown, guipc, notGUI>>

\* the user types into g.targetEntry or picks a directory (lines 105-114)
EditTarget ==
    /\ guipc = "open"
    /\ \E text \in EntryTexts \ {targetEntry} : targetEntry' = text
    /\ UNCHANGED <<sourceEntry, dryRunCheck, guiConfig, convertButton, goroutines,
                   shown, guipc, notGUI>>

\* the user checks or unchecks g.dryRunCheck (line 117)
ToggleDryRun ==
    /\ guipc = "open"
    /\ dryRunCheck' = ~dryRunCheck
    /\ UNCHANGED <<sourceEntry, targetEntry, guiConfig, convertButton, goroutines,
                   shown, guipc, notGUI>>

\* the goroutines that run
Running == { id \in 1..MaxRoutines : goroutines[id].pc # "off" }

\* startConversion (lines 260-286) without the Disable of line 283
startConversionEnabled ==
    /\ guipc = "open"
    /\ convertButton.enabled
    /\ Running # 1..MaxRoutines
    /\ IF sourceEntry = <<>>
       THEN /\ shown' = "no source"
            /\ UNCHANGED <<guiConfig, convertButton, goroutines>>
       ELSE IF targetEntry = <<>>
       THEN /\ shown' = "no target"
            /\ UNCHANGED <<guiConfig, convertButton, goroutines>>
       ELSE /\ guiConfig' = [SourceDir |-> sourceEntry, TargetDir |-> targetEntry,
                             DryRun |-> dryRunCheck]
            /\ convertButton' = [convertButton EXCEPT !.text = "running"]
            /\ LET id == CHOOSE i \in 1..MaxRoutines :
                            /\ i \notin Running
                            /\ \A j \in 1..(i - 1) : j \in Running
               IN  goroutines' = [goroutines EXCEPT ![id] = [pc |-> "find", folders |-> 0]]
            /\ UNCHANGED shown
    /\ UNCHANGED <<sourceEntry, targetEntry, dryRunCheck, guipc, notGUI>>

\* a tap on the convert button, which calls startConversion (line 125) when
\* the button is enabled: lines 260-286, up to the go statement.  The new
\* goroutine takes the first free place.
startConversion ==
    /\ guipc = "open"
    /\ convertButton.enabled
    /\ Running # 1..MaxRoutines
    /\ IF sourceEntry = <<>>
       THEN /\ shown' = "no source"
            /\ UNCHANGED <<guiConfig, convertButton, goroutines>>
       ELSE IF targetEntry = <<>>
       THEN /\ shown' = "no target"
            /\ UNCHANGED <<guiConfig, convertButton, goroutines>>
       ELSE /\ guiConfig' = [SourceDir |-> sourceEntry, TargetDir |-> targetEntry,
                             DryRun |-> dryRunCheck]
            /\ convertButton' = [enabled |-> FALSE, text |-> "running"]
            /\ LET id == CHOOSE i \in 1..MaxRoutines :
                            /\ i \notin Running
                            /\ \A j \in 1..(i - 1) : j \in Running
               IN  goroutines' = [goroutines EXCEPT ![id] = [pc |-> "find", folders |-> 0]]
            /\ UNCHANGED shown
    /\ UNCHANGED <<sourceEntry, targetEntry, dryRunCheck, guipc, notGUI>>

\* lines 293-306 of the goroutine: FindVersionedFolders returns an error
\* or some folders
FindFolders(id) ==
    /\ goroutines[id].pc = "find"
    /\ \E got \in 0..2 :
          \* FindVersionedFolders returns an error when it finds no folder
          \* (lines 102-104 of converter.go)
          LET err == got = 0
          IN  IF err
              THEN /\ shown' = "find error"
                   /\ goroutines' = [goroutines EXCEPT ![id].pc = "exit"]
              ELSE IF got = 0
              THEN /\ shown' = "no folders"
                   /\ goroutines' = [goroutines EXCEPT ![id].pc = "exit"]
              ELSE /\ shown' = "found"
                   /\ goroutines' = [goroutines EXCEPT ![id] = [pc |-> "migrate", folders |-> got]]
    /\ UNCHANGED <<sourceEntry, targetEntry, dryRunCheck, guiConfig, convertButton,
                   guipc, notGUI>>

\* lines 308-318 of the goroutine: MigrateToGit returns an error or nil
Migrate(id) ==
    /\ goroutines[id].pc = "migrate"
    /\ \E err \in BOOLEAN :
          shown' = IF err THEN "migration error"
                   ELSE IF ~guiConfig.DryRun THEN "success" ELSE "test done"
    /\ goroutines' = [goroutines EXCEPT ![id].pc = "exit"]
    /\ UNCHANGED <<sourceEntry, targetEntry, dryRunCheck, guiConfig, convertButton,
                   guipc, notGUI>>

\* the deferred function of the goroutine (lines 288-291), at its return
Exit(id) ==
    /\ goroutines[id].pc = "exit"
    /\ convertButton' = [enabled |-> TRUE, text |-> "start"]
    /\ goroutines' = [goroutines EXCEPT ![id] = NoRoutine]
    /\ UNCHANGED <<sourceEntry, targetEntry, dryRunCheck, guiConfig, shown, guipc, notGUI>>

\* a step of a goroutine
Goroutine == \E id \in 1..MaxRoutines : FindFolders(id) \/ Migrate(id) \/ Exit(id)

\* the window alone: nothing else of the program runs
GUIStart ==
    /\ targetExists = FALSE
    /\ tree = EmptyTree
    /\ MigrateIdle
    /\ RoundTripIdle
    /\ FindIdle
    /\ AuthorIdle
    /\ ClearIdle
    /\ TimeIdle
    /\ MessageIdle
    /\ AppendIdle
    /\ GUIInit

GUINext ==
    \/ EditSource
    \/ EditTarget
    \/ ToggleDryRun
    \/ startConversion
    \/ \E id \in 1..MaxRoutines : FindFolders(id)
    \/ \E id \in 1..MaxRoutines : Migrate(id)
    \/ \E id \in 1..MaxRoutines : Exit(id)

\* the Go scheduler runs a goroutine that can take a step, and the two
\* calls of the converter return
SpecGUI == GUIStart /\ [][GUINext]_vars /\ WF_vars(Goroutine)

---------------------------------------------------------------------------
(* The commit message of a folder on its own (lines 229-242), for message
   templates and for folder names and authors that hold braces *)

\* the templates: every placeholder, some of them twice and side by side
MessageTemplates ==
    { <<"{", "v", "e", "r", "s", "i", "o", "n", "}">>,
      <<"{", "f", "o", "l", "d", "e", "r", "}", " ", "b", "y", " ", "{", "a", "u", "t", "h", "o", "r", "}">>,
      <<"{", "d", "a", "t", "e", "}", "/", "{", "f", "i", "l", "e", "s", "}">>,
      <<"{", "f", "o", "l", "d", "e", "r", "}", "{", "f", "o", "l", "d", "e", "r", "}">>,
      <<"v", "{", "v", "e", "r", "s", "i", "o", "n", "}", ":", " ", "{", "f", "i", "l", "e", "s", "}", " ", "f", "i", "l", "e", "s">>,
      <<"{", "a", "u", "t", "h", "o", "r", "}", "{", "v", "e", "r", "s", "i", "o", "n", "}">> }

\* the folders: their base names, from which the default pattern extracts
\* the version; a file system lets a name hold braces
MessageFolders ==
    { [Path |-> n, Version |-> FindString(n), CreationTime |-> t] :
        n \in { <<"v", "1", ".", "0">>, <<"v", "2", "{", "a", "u", "t", "h", "o", "r", "}">>, <<"{", "f", "i", "l", "e", "s", "}", "3">> },
        t \in 1..MaxTime }

\* the Configs: the default author or one with a placeholder in the name
MessageConfigs ==
    { [NoConfig EXCEPT !.MessageTemplate = t, !.Author = a,
                       !.Email = <<"d", "e", "v", "@", "e", "x", "a", "m", "p", "l", "e", ".", "c", "o", "m">>] :
        t \in MessageTemplates,
        a \in { <<"D", "e", "v", "e", "l", "o", "p", "e", "r">>, <<"D", "{", "d", "a", "t", "e", "}">> } }

MessageInit ==
    /\ msConfig \in MessageConfigs
    /\ msFolder \in MessageFolders
    /\ msCount \in {1, 12}
    /\ msResult = <<>>
    /\ mspc = "start"

\* lines 219-242 for one folder
FormatCommitMessage ==
    /\ mspc = "start"
    /\ msResult' = CommitMessage(msConfig, msFolder, msCount,
                                 ResolveAuthor(msConfig, msFolder.Version).Name)
    /\ mspc' = "formatted"
    /\ UNCHANGED <<msConfig, msFolder, msCount, notMessage>>

\* the message alone: nothing else of the program runs
MessageStart ==
    /\ targetExists = FALSE
    /\ tree = EmptyTree
    /\ MigrateIdle
    /\ RoundTripIdle
    /\ FindIdle
    /\ AuthorIdle
    /\ ClearIdle
    /\ TimeIdle
    /\ AppendIdle
    /\ GUIIdle
    /\ MessageInit

MessageNext == FormatCommitMessage

SpecMessage == MessageStart /\ [][MessageNext]_vars

---------------------------------------------------------------------------
(* Properties of the author resolution *)

\* the author configured
ConfigAuthor == [Name |-> auConfig.Author, Email |-> auConfig.Email]

\* the lines of the file that are no comments and have at least n fields,
\* the first of which is the version
LinesOfVersion(n) ==
    { k \in DOMAIN auLines :
        /\ ~auLines[k].comment
        /\ Len(auLines[k].fields) >= n
        /\ auLines[k].fields[1] = auVersion }

\* the i-th field of a line, empty when the line has fewer fields
Field(line, i) == IF Len(line.fields) >= i THEN line.fields[i] ELSE <<>>

\* the author that the first of the lines at the positions in ks gives, when
\* the file is configured and readable and the line has a name and an email
AuthorByLine(ks) ==
    IF auConfig.AuthorsFile # <<>> /\ auReadable /\ ks # {}
    THEN LET first == auLines[CHOOSE k \in ks : \A j \in ks : k <= j]
         IN  IF Field(first, 2) # <<>> /\ Field(first, 3) # <<>>
             THEN [Name |-> Field(first, 2), Email |-> Field(first, 3)]
             ELSE ConfigAuthor
    ELSE ConfigAuthor

\* C11, as stated: the author is the (name, email) of the first line whose
\* first field is the folder's version, when both are not empty, and the
\* configured author in every other case
C11_AuthorOfFirstLine ==
    aupc = "resolved" => auAuthor = AuthorByLine(LinesOfVersion(1))

\* C11, amended: the author is the (name, email) of the first line of at
\* least three fields whose first field is the folder's version, when both
\* are not empty, and the configured author in every other case (no file
\* configured, unreadable file, no such line, empty name or empty email);
\* name and email never come from different sources
C11_AuthorOfFirstFullLine ==
    aupc = "resolved" =>
        /\ auAuthor = AuthorByLine(LinesOfVersion(3))
        /\ auAuthor = ConfigAuthor
           \/ \E k \in DOMAIN auLines :
                 auAuthor = [Name |-> Field(auLines[k], 2), Email |-> Field(auLines[k], 3)]

\* the author has been taken from the second line of the file, a line with
\* white space around it that follows a comment
C11_Witness ==
    /\ aupc = "resolved"
    /\ auAuthor # ConfigAuthor
    /\ Len(auLines) >= 2
    /\ auLines[1].comment
    /\ auLines[2].pad
    /\ auAuthor = [Name |-> Field(auLines[2], 2), Email |-> Field(auLines[2], 3)]

---------------------------------------------------------------------------
(* Properties of MigrateToGit *)

\* the commits the running call has created
CreatedCommits == { k \in DOMAIN commits : k > Len(pre.commits) }

\* the version tokens the messages of a history stand for
HistoryVersions(history) ==
    { ScanVersion(history[k].Message)[1] :
        k \in { j \in DOMAIN history : ScanVersion(history[j].Message) # <<>> } }

\* C1: in append mode, when nothing fails, no commit is created for a folder
\* whose version token some commit of the history the call found already
\* stands for.  The statement is about
\* commits that change the tree: whether worktree.Commit accepts a commit
\* that changes nothing depends on the library's version.
C1_VersionUniqueness ==
    [][ ( /\ config.Append
          /\ ~faulted'
          /\ Len(commits') = Len(commits) + 1
          /\ commits'[Len(commits')].Tree # ParentTree(commits) )
        => folders[pos].Version \notin HistoryVersions(pre.commits) ]_vars

\* C2: when a successful append call is repeated with the same arguments and
\* nothing fails, the repeated call creates no commit (a commit that changes
\* the tree, see C1), so the history stays what the first call left
C2_AppendIdempotent ==
    (rerun /\ ~faulted) =>
        \A k \in CreatedCommits : commits[k].Tree = commits[k - 1].Tree

\* C3: in non-append mode, when nothing fails, the tree of the commit made
\* for a folder holds no file that the folder does not have
C3_NoLingeringFiles ==
    [][ ( /\ ~config.Append
          /\ ~faulted'
          /\ Len(commits') = Len(commits) + 1 )
        => DOMAIN commits'[Len(commits')].Tree
               \subseteq FilteredFiles(folders[pos].Path) ]_vars

\* C4: in non-append mode, when nothing fails, the target's working tree
\* after the clear and the copy of a folder holds exactly the folder's
\* files that pass the filters, and the directories they are in
C4_TreeEqualsFolder ==
    (pc = "copied" /\ ~config.Append /\ ~faulted) =>
        /\ DOMAIN tree.files = FilteredFiles(folders[pos].Path)
        /\ tree.dirs = ParentDirs(FilteredFiles(folders[pos].Path))

\* C5: a run of copyFilesAndTrack in append mode leaves every file that is
\* in the target before the run as it is, and does not return its path
\* among the new files
C5_AppendKeepsExisting ==
    [][ ( /\ config.Append
          /\ pc = "loop"
          /\ pc' = "copied" \/ result' = "FileCopyFailed" )
        => \A p \in DOMAIN tree.files :
              /\ p \in DOMAIN tree'.files
              /\ tree'.files[p] = tree.files[p]
              /\ \A k \in DOMAIN newFiles' : newFiles'[k] # Join(TargetDir, p) ]_vars

\* an append run has copied some file of the folder and has skipped another
\* one, which the target held with a different content
C5_Witness ==
    /\ config.Append
    /\ pc = "copied"
    /\ fileCount > 0
    /\ \E p \in FilteredFiles(folders[pos].Path) :
          /\ p \in DOMAIN tree.files
          /\ tree.files[p] # folders[pos].Path

\* C6: a call with DryRun set returns success, whatever the other settings
\* are (append without a repository included), and leaves the target
\* directory, the repository, its index and its history as they were
C6_DryRunChangesNothing ==
    config.DryRun =>
        /\ pc = "done"
        /\ result = "ok"
        /\ targetExists = pre.targetExists
        /\ gitDir = pre.gitDir
        /\ tree = pre.tree
        /\ index = pre.index
        /\ commits = pre.commits

\* a dry run in append mode has returned for a target that does not exist
C6_Witness ==
    /\ config.DryRun
    /\ config.Append
    /\ pc = "done"
    /\ folders # <<>>
    /\ ~targetExists
    /\ ~gitDir

\* the folders among the first n of a list that have a file to copy
RECURSIVE Committable(_, _)
Committable(fl, n) ==
    IF n = 0 THEN <<>>
    ELSE IF FilteredFiles(fl[n].Path) = {}
    THEN Committable(fl, n - 1)
    ELSE Append(Committable(fl, n - 1), fl[n])

\* C9: a non-append call for a target without a repository has created,
\* at any point of its loop and at its return, exactly one commit for every
\* folder it is done with that has a file to copy, and none for the others,
\* in the order of the list; the commit's author time is the folder's
\* creation time and its message begins with "Version <version>:".  A call
\* that returns success is done with every folder of the list.
C9_OneCommitPerFolder ==
    ( /\ ~config.Append
      /\ ~config.DryRun
      /\ ~pre.gitDir
      /\ pos >= 1 )
    => LET expected == Committable(folders, pos - 1)
       IN  /\ (pc = "done" /\ result = "ok") => pos = Len(folders) + 1
           /\ Len(commits) = Len(expected)
           /\ \A k \in DOMAIN expected :
                 /\ commits[k].When = expected[k].CreationTime
                 /\ HasPrefix(commits[k].Message,
                              StrVersion \o <<" ">> \o expected[k].Version \o <<":">>)

\* a non-append call for a fresh target has returned success for a list
\* that holds at least two folders with a file to copy and one without
C9_Witness ==
    /\ ~config.Append
    /\ ~pre.gitDir
    /\ pc = "done"
    /\ result = "ok"
    /\ Len(commits) >= 2
    /\ Len(commits) < Len(folders)

\* C10: an append call (not a dry run) for a repository whose history holds a commit of
\* folder A, with the list [A, B] where B's version is new and B has a file
\* to copy, creates exactly one commit, B's, and skips A (nothing fails)
C10_AppendAddsOnlyNew ==
    ( /\ config.Append
      /\ ~config.DryRun
      /\ pc = "done"
      /\ result = "ok"
      /\ ~faulted
      /\ Len(folders) = 2
      /\ folders[1].Version \in HistoryVersions(pre.commits)
      /\ folders[2].Version \notin HistoryVersions(pre.commits)
      /\ FilteredFiles(folders[2].Path) # {} )
    => /\ Len(commits) = Len(pre.commits) + 1
       /\ ScanVersion(commits[Len(commits)].Message) = <<folders[2].Version>>

---------------------------------------------------------------------------
(* Properties of the message round trip and of the discovery *)

\* C7: for every version token, the scan of lines 171-175 applied to the
\* default message of lines 238-241 yields the token
C7_MessageRoundTrip ==
    rtpc = "scanned" => rtScan = <<rtVersion>>

\* C8: the list FindVersionedFolders returns on success is sorted
\* non-decreasing by CreationTime
C8_SortedByCreationTime ==
    (findpc = "returned" /\ findErr = "") =>
        \A k \in 1..(Len(found) - 1) :
            found[k].CreationTime <= found[k + 1].CreationTime

\* FindVersionedFolders has returned three folders, for matches that the
\* glob listed with the latest folder first and the earliest last
C8_Witness ==
    /\ findpc = "returned"
    /\ findErr = ""
    /\ Len(found) = Len(matches)
    /\ Len(found) >= 3
    /\ \A k \in 1..(Len(matches) - 1) :
          matches[k].CreationTime > matches[k + 1].CreationTime

\* a name in which the default extraction pattern finds a version: one that
\* holds a digit
HoldsDigit(name) == \E k \in DOMAIN name : IsDigit(name[k])

\* the matches that are directories with a version under the pattern of the
\* call
VersionedMatches ==
    { k \in DOMAIN matches :
        /\ matches[k].IsDir
        /\ findConfig.ExtractPattern = DefaultPattern
        /\ HoldsDigit(matches[k].Name) }

\* C14: FindVersionedFolders never returns success with an empty list; it
\* returns the no-folders-found error when the pattern compiles, the glob
\* succeeds and no match is a directory with a version, and the
\* invalid-pattern error, before it has looked at any match, when the
\* extraction pattern does not compile; it changes neither the matches of
\* the source directory nor the target
C14_DiscoveryErrors ==
    findpc = "returned" =>
        /\ findErr = "" => found # <<>>
        /\ findErr # "" => found = <<>>
        /\ findConfig.ExtractPattern = BrokenPattern
              => (findErr = "InvalidPattern" /\ examined = 0)
        /\ ( /\ findConfig.ExtractPattern # BrokenPattern
             /\ findConfig.GlobOk
             /\ VersionedMatches = {} ) => findErr = "NoFoldersFound"
        /\ VersionedMatches # {} /\ findConfig.GlobOk => Len(found) = Cardinality(VersionedMatches)
        /\ ~targetExists /\ ~gitDir /\ tree = EmptyTree /\ commits = <<>>

\* FindVersionedFolders has returned the no-folders-found error for matches
\* among which are a file with a version in its name and a directory
\* without one
C14_Witness ==
    /\ findpc = "returned"
    /\ findErr = "NoFoldersFound"
    /\ findConfig.ExtractPattern = DefaultPattern
    /\ \E k \in DOMAIN matches : ~matches[k].IsDir /\ HoldsDigit(matches[k].Name)
    /\ \E k \in DOMAIN matches : matches[k].IsDir /\ ~HoldsDigit(matches[k].Name)

---------------------------------------------------------------------------
(* Properties of MigrateToGit: errors, history, working tree *)

\* C12: a call in append mode (not a dry run) for a target without a
\* repository returns at once with the repository-not-found error, or with
\* the error of os.MkdirAll when the target directory cannot be created; no
\* repository is initialised, nothing is cleared, copied, staged or
\* committed, and nothing but the target directory itself is created
C12_AppendNeedsRepository ==
    (config.Append /\ ~config.DryRun /\ ~pre.gitDir) =>
        /\ pc = "done"
        /\ result \in {"RepositoryNotFound", "DirectoryCreateFailed"}
        /\ result = "DirectoryCreateFailed" => (faulted /\ targetExists = pre.targetExists)
        /\ result = "RepositoryNotFound" => targetExists
        /\ ~gitDir
        /\ tree = pre.tree
        /\ index = pre.index
        /\ commits = pre.commits

\* an append call with folders has returned the repository-not-found error
\* for a target that did not exist, and has created the target directory
C12_Witness ==
    /\ config.Append
    /\ ~config.DryRun
    /\ pc = "done"
    /\ result = "RepositoryNotFound"
    /\ folders # <<>>
    /\ ~pre.targetExists
    /\ targetExists

\* C13: the history only grows, in both modes and under every failure: a
\* step leaves every commit of the history where it is and adds commits on
\* top of the previous head only, and a repository that is there is never
\* initialised again or removed; in particular a non-append call for a
\* target with a repository opens it
C13_HistoryOnlyGrows ==
    [][ /\ Len(commits') >= Len(commits)
        /\ SubSeq(commits', 1, Len(commits)) = commits
        /\ gitDir => gitDir' ]_vars

\* a non-append call for a target with a repository and commits has
\* returned success with new commits on top of the old ones
C13_Witness ==
    /\ ~config.Append
    /\ ~config.DryRun
    /\ pc = "done"
    /\ result = "ok"
    /\ pre.gitDir
    /\ pre.commits # <<>>
    /\ Len(commits) > Len(pre.commits)
    /\ SubSeq(commits, 1, Len(pre.commits)) = pre.commits

\* C15: in append mode the set existingVersions built at the start of the
\* call holds the version token of every commit of the history whose
\* message begins with "Version <token>:", the commits below the head of
\* the branch included
C15_ScanCoversHistory ==
    (config.Append /\ ~config.DryRun /\ pc = "loop") =>
        \A k \in DOMAIN pre.commits, path \in FolderPaths :
            HasPrefix(pre.commits[k].Message,
                      StrVersion \o <<" ">> \o FolderInfo(path).Version \o <<":">>)
                => FolderInfo(path).Version \in existingVersions

\* whether a file's path holds a name that clearDirectory protects
UnderProtectedName(rel) == \E n \in DOMAIN rel : rel[n] \in systemDirs

\* C16: in a non-append call in which nothing fails, whenever the loop is
\* between two folders or the call has returned success, the files of the
\* working tree are exactly the files, filters applied, of the folder that
\* was committed last; a folder from which nothing is copied leaves the
\* working tree of the last committed folder as it is.  The statement is
\* for the first call on a target and for folders without a file below a
\* protected name (those are the subject of C4).
C16_TreeOfLastCommitted ==
    ( /\ ~config.Append
      /\ ~config.DryRun
      /\ ~faulted
      /\ runs = 1
      /\ pc = "loop" \/ (pc = "done" /\ result = "ok")
      /\ \A k \in DOMAIN folders :
            \A f \in FilteredFiles(folders[k].Path) : ~UnderProtectedName(f)
      /\ pos >= 1
      /\ Committable(folders, pos - 1) # <<>> )
    => LET done == Committable(folders, pos - 1)
       IN  DOMAIN tree.files = FilteredFiles(done[Len(done)].Path)

\* C17: a folder from which copyFilesAndTrack has copied no file gets no
\* commit and is no error: the loop goes on with the next folder.  In both
\* modes, whenever the loop is between two folders or the call has returned
\* success, the call has created as many commits as there are folders from
\* which it has copied at least one file (folders skipped as existing are
\* not copied from).
C17_EmptyFolderNoCommit ==
    [][ /\ (pc = "copied" /\ fileCount = 0)
            => /\ pc' = "loop"
               /\ pos' = pos + 1
               /\ result' = ""
               /\ commits' = commits
        /\ (~config'.DryRun /\ (pc' = "loop" \/ (pc' = "done" /\ result' = "ok")))
            => Len(commits') = Len(pre'.commits) + copiedFolders' ]_vars

\* an append call has returned success with one commit, for a list of three
\* folders of which one was skipped as existing and one, whose version is
\* new, has no file to copy
C17_Witness ==
    /\ config.Append
    /\ pc = "done"
    /\ result = "ok"
    /\ Len(folders) = 3
    /\ copiedFolders = 1
    /\ Len(commits) = Len(pre.commits) + 1
    /\ \E k \in DOMAIN folders : folders[k].Version \in existingVersions
    /\ \E k \in DOMAIN folders :
          /\ folders[k].Version \notin existingVersions
          /\ FilteredFiles(folders[k].Path) = {}

\* the errors MigrateToGit returns from the body of its folder loop
FolderErrors == {"DirectoryClearFailed", "FileCopyFailed", "CommitFailed"}

\* C18: when the clear, the copy or the commit of a folder fails, the call
\* returns the error at once: the loop stays at that folder, the step adds no
\* commit, and the call does nothing more to the target.  A step of the
\* commit that creates no commit returns the commit's error.  The history
\* then holds the commits that were there before the call and one commit
\* for every earlier folder from which files were copied, and none for the
\* folder that failed.
C18_FailureAborts ==
    [][ /\ (result = "" /\ result' \in FolderErrors)
            => /\ pc' = "done"
               /\ pos' = pos
               /\ pos \in DOMAIN folders
               /\ commits' = commits
        /\ (pc = "copied" /\ fileCount # 0 /\ Len(commits') = Len(commits))
            => result' = "CommitFailed"
        /\ (pc = "done" /\ result \in FolderErrors)
            => (pc' = "idle" /\ targetVars' = targetVars)
        /\ (pc' = "done" /\ result' \in FolderErrors)
            => /\ SubSeq(commits', 1, Len(pre'.commits)) = pre'.commits
               /\ Len(commits') = Len(pre'.commits) + copiedFolders'
                                      - (IF result' = "CommitFailed" THEN 1 ELSE 0) ]_vars

\* worktree.Commit has failed for the second of three folders: the call has
\* returned the error with the first folder's commit in the history
C18_Witness ==
    /\ pc = "done"
    /\ result = "CommitFailed"
    /\ faulted
    /\ Len(folders) = 3
    /\ pos = 2
    /\ copiedFolders = 2
    /\ Len(commits) = Len(pre.commits) + 1

\* the paths, relative to the target, that copyFilesAndTrack has returned
NewPaths == { Rel(TargetDir, newFiles[k]) : k \in DOMAIN newFiles }

\* the paths of NewPaths whose entry in an index is not the file's content
NotStaged(idx) ==
    { p \in NewPaths : p \notin DOMAIN idx \/ idx[p] # tree.files[p] }

\* C19: the staging of a folder touches the index entries of the paths that
\* copyFilesAndTrack has returned, taken relative to the target, and of no
\* other path.  Every one of them is staged when no worktree.Add fails, and
\* all but the one whose Add fails otherwise.  The step goes on to
\* worktree.Commit in either case: it ends with a commit of the index, or
\* with the error of the commit and no other error.
C19_BestEffortStaging ==
    [][ (pc = "copied" /\ fileCount # 0)
        => /\ \A p \in (DOMAIN index \cup DOMAIN index') \ NewPaths :
                 /\ p \in DOMAIN index
                 /\ p \in DOMAIN index'
                 /\ index'[p] = index[p]
           /\ Cardinality(NotStaged(index')) <= 1
           /\ faulted' = faulted => NotStaged(index') = {}
           /\ \/ /\ pc' = "loop"
                 /\ Len(commits') = Len(commits) + 1
                 /\ commits'[Len(commits')].Tree = index'
              \/ /\ pc' = "done"
                 /\ result' = "CommitFailed"
                 /\ commits' = commits ]_vars

\* a folder with three new files has been committed after the staging of
\* the first of them had failed: the commit holds the other two
C19_Witness ==
    /\ pc = "loop"
    /\ faulted
    /\ Len(newFiles) = 3
    /\ Len(commits) = Len(pre.commits) + 1
    /\ commits[Len(commits)].Tree = index
    /\ NotStaged(index) = {Rel(TargetDir, newFiles[1])}
    /\ DOMAIN index = NewPaths \ NotStaged(index)

---------------------------------------------------------------------------
(* Properties of clearDirectory *)

\* the entries of a tree: files, symbolic links and directories
AllEntries(fs) == (DOMAIN fs.files) \cup fs.dirs

\* an entry of the tree before the call that is a symbolic link
Link(p) == p \in DOMAIN clTree.files /\ clTree.files[p] = LinkContent

\* an entry that a call leaves as it was
Kept(p) ==
    /\ p \in clTree.dirs => p \in clResult.fs.dirs
    /\ p \in DOMAIN clTree.files
          => (p \in DOMAIN clResult.fs.files /\ clResult.fs.files[p] = clTree.files[p])

\* os.Remove of the entry fails: by itself, or because the entry is a
\* directory that still holds something
OwnDeletionFails(p) ==
    \/ p \in FailsAt("remove", clFaults)
    \/ p \in clTree.dirs /\ Entries(p, clResult.fs) # {}

\* the loop of lines 322-363 over the entries of directory dir gets as far
\* as the entry name: os.ReadDir lists dir, and os.Lstat fails neither for
\* the entry nor for an entry without a protected name listed before it
LoopGetsTo(dir, name) ==
    /\ dir \notin FailsAt("readdir", clFaults)
    /\ \A e \in Entries(dir, clTree) :
          (e \notin systemDirs /\ (e = name \/ NameLess(e, name)))
              => Append(dir, e) \notin FailsAt("lstat", clFaults)

\* the call gets to an entry: its loops get to every directory above the
\* entry and to the entry
Reached(p) ==
    \A n \in DOMAIN p : LoopGetsTo(SubSeq(p, 1, n - 1), p[n])

\* the clearing of a directory returns an error
CutShort(dir) ==
    \/ dir \in FailsAt("readdir", clFaults)
    \/ \E e \in Entries(dir, clTree) :
          e \notin systemDirs /\ Append(dir, e) \in FailsAt("lstat", clFaults)

\* C20 as stated, for a call that returns no error: clearDirectory keeps
\* every entry with a protected name (and what is below it) and every
\* symbolic link, at any depth; it deletes every other entry unless the
\* entry's own deletion fails; .git survives
C20_ClearsAllButProtected ==
    (clpc = "cleared" /\ ~clResult.err) =>
        /\ \A p \in AllEntries(clTree) : UnderProtectedName(p) => Kept(p)
        /\ \A p \in AllEntries(clTree) : Link(p) => Kept(p)
        /\ \A p \in AllEntries(clTree) :
              (~UnderProtectedName(p) /\ ~Link(p))
                  => (p \notin AllEntries(clResult.fs) \/ OwnDeletionFails(p))
        /\ GitDir \in clTree.dirs => GitDir \in clResult.fs.dirs

\* C20, amended: clearDirectory keeps every entry with a protected name
\* (and what is below it) and every symbolic link, at any depth, and creates
\* nothing; of the other entries it deletes every one it gets to, unless the
\* entry's own deletion fails or the entry is a directory whose clearing
\* returns an error, and it goes on after either.  It does not get to the
\* entries of a directory that os.ReadDir cannot list, nor past an entry for
\* which os.Lstat fails: the call for that directory returns an error, which
\* the call for the directory above logs.  The call for the target returns
\* an error exactly when it is cut short itself.  .git survives.
C20_ClearsWhatItGetsTo ==
    clpc = "cleared" =>
        /\ \A p \in AllEntries(clTree) : UnderProtectedName(p) => Kept(p)
        /\ \A p \in AllEntries(clTree) : Link(p) => Kept(p)
        /\ \A p \in AllEntries(clResult.fs) : p \in AllEntries(clTree) /\ Kept(p)
        /\ \A p \in AllEntries(clTree) :
              (~UnderProtectedName(p) /\ ~Link(p))
                  => IF Reached(p) /\ ~(p \in clTree.dirs /\ CutShort(p))
                     THEN p \notin AllEntries(clResult.fs) \/ OwnDeletionFails(p)
                     ELSE Kept(p)
        /\ clResult.err = CutShort(<<>>)
        /\ GitDir \in clTree.dirs => (GitDir \in clResult.fs.dirs /\ Kept(GitHead))

\* a call on the directory that holds every leaf has failed to os.Lstat the
\* directory d/e: it has deleted a and d/c, has kept the two links, the
\* entries named bin, tmp and .git with their files, and d/e with its file,
\* and has returned no error
C20_Witness ==
    /\ clpc = "cleared"
    /\ clTree = TreeOf(ClearLeaves)
    /\ clFaults = {Fault("lstat", <<<<"d">>, <<"e">>>>)}
    /\ ~clResult.err
    /\ DOMAIN clResult.fs.files =
          { l.path : l \in { m \in ClearLeaves : m.link \/ UnderProtectedName(m.path) } }
              \cup { <<<<"d">>, <<"e">>, <<"f">>>> }

\* a hidden directory directly under the user's home directory
HiddenInHome(dir) ==
    /\ dir # <<>>
    /\ Dir(dir) = HomeDir
    /\ Head(Base(dir)) = "."

\* C21: a call of clearDirectory in which nothing fails deletes nothing
\* when the directory's base name is a protected name or the directory is a
\* hidden directory directly under the home directory; for every other
\* directory (non-hidden ones under the home directory and directories in
\* a hidden one included) it deletes every entry but the protected names,
\* what is below them, and the symbolic links
C21_RefusesOnlyHiddenInHome ==
    clpc = "cleared" =>
        IF Base(clDir) \in systemDirs \/ HiddenInHome(clDir)
        THEN clResult.fs = clTree
        ELSE \A p \in AllEntries(clTree) :
                (~UnderProtectedName(p) /\ ~Link(p)) => p \notin AllEntries(clResult.fs)

---------------------------------------------------------------------------
(* Properties of getFolderCreationTime *)

\* the files of a walk that are neither skipped themselves nor in a
\* directory that is skipped, in the order of the walk
RECURSIVE Flatten(_)
Flatten(entries) ==
    IF entries = <<>> THEN <<>>
    ELSE LET e == Head(entries)
         IN  (IF e.isDir
              THEN IF SkipsDir(e.name) THEN <<>> ELSE Flatten(e.files)
              ELSE IF SkipsFile(e.name) THEN <<>> ELSE <<e>>)
                 \o Flatten(Tail(entries))

\* the files sampled: the first maxFiles of them, none when the folder
\* itself is skipped
Sampled ==
    IF SkipsDir(Base(tmRoot)) THEN <<>>
    ELSE LET all == Flatten(tmWalk)
         IN  SubSeq(all, 1, IF Len(all) < maxFiles THEN Len(all) ELSE maxFiles)

\* how often a time is in the multiset of the sampled files: once for every
\* file with that modification time, and once more for every key file
Occurrences(t) ==
    Cardinality({ k \in DOMAIN Sampled : Sampled[k].mtime = t })
        + Cardinality({ k \in DOMAIN Sampled :
                          Sampled[k].mtime = t /\ IsKeyFile(Sampled[k].name) })

\* C22: getFolderCreationTime returns a time in every case.  It samples at
\* most maxFiles files; the multiset it collects holds the modification
\* time of every sampled file once and that of every sampled key file
\* twice; when the multiset is empty the current time is returned, else
\* the element at index floor(n/2), counted from 0, of the sorted multiset
\* of n elements, which is the modification time of a sampled file
C22_MedianOfSample ==
    tmpc = "returned" =>
        /\ tmProcessed = Len(Sampled)
        /\ tmProcessed <= maxFiles
        /\ \A k \in DOMAIN tmTimes : tmTimes[k] \in 1..MaxTime
        /\ \A t \in 1..MaxTime :
              Cardinality({ k \in DOMAIN tmTimes : tmTimes[k] = t }) = Occurrences(t)
        /\ IF Sampled = <<>> THEN tmResult = TimeNow
           ELSE /\ Cardinality({ k \in DOMAIN tmTimes : tmTimes[k] < tmResult })
                       <= Len(tmTimes) \div 2
                /\ Cardinality({ k \in DOMAIN tmTimes : tmTimes[k] <= tmResult })
                       > Len(tmTimes) \div 2
                /\ \E k \in DOMAIN Sampled : Sampled[k].mtime = tmResult

\* a call has returned for a folder with more files than maxFiles, among
\* the sampled ones a key file: the multiset has an even number of
\* elements, and the time returned is the upper of the two in the middle
C22_Witness ==
    /\ tmpc = "returned"
    /\ Len(Flatten(tmWalk)) > maxFiles
    /\ tmProcessed = maxFiles
    /\ \E k \in DOMAIN Sampled : IsKeyFile(Sampled[k].name)
    /\ Len(tmTimes) % 2 = 0
    /\ tmResult # MedianLow(tmTimes)

---------------------------------------------------------------------------
(* Properties of the commit message *)

\* what stands for each placeholder in the message of msFolder
Placeholders ==
    << [key |-> <<"{", "v", "e", "r", "s", "i", "o", "n", "}">>, value |-> msFolder.Version],
       [key |-> <<"{", "f", "o", "l", "d", "e", "r", "}">>, value |-> msFolder.Path],
       [key |-> <<"{", "d", "a", "t", "e", "}">>, value |-> FormatTime(msFolder.CreationTime)],
       [key |-> <<"{", "f", "i", "l", "e", "s", "}">>, value |-> FormatInt(msCount)],
       [key |-> <<"{", "a", "u", "t", "h", "o", "r", "}">>, value |-> msConfig.Author] >>

\* a template with every placeholder that is in it replaced by its value,
\* and nothing replaced in the values
RECURSIVE Substituted(_)
Substituted(template) ==
    IF template = <<>> THEN <<>>
    ELSE IF \E i \in DOMAIN Placeholders : HasPrefix(template, Placeholders[i].key)
    THEN LET i == CHOOSE j \in DOMAIN Placeholders : HasPrefix(template, Placeholders[j].key)
         IN  Placeholders[i].value
                 \o Substituted(SubSeq(template, Len(Placeholders[i].key) + 1, Len(template)))
    ELSE <<Head(template)>> \o Substituted(Tail(template))

\* C23: with a message template, the commit message is the template with
\* every occurrence of {version}, {folder}, {date}, {files} and {author}
\* replaced by the folder's version, its base name, its CreationTime as
\* YYYY-MM-DD HH:MM:SS, fileCount and the author's name; nothing is
\* replaced in the text that has come in for a placeholder
C23_TemplateSubstitution ==
    mspc = "formatted" => msResult = Substituted(msConfig.MessageTemplate)

---------------------------------------------------------------------------
(* Properties of the copy in append mode *)

\* C24: a copy in append mode that returns no error leaves every file that
\* was below the target in its place with its content, and the files below
\* the target after it are those from before together with the folder's
\* files that pass the filters, each new one with the folder's content
C24_AppendIsCumulative ==
    (appc = "copied" /\ ~apResult.err) =>
        /\ \A p \in DOMAIN apTree.files :
              /\ p \in DOMAIN apResult.fs.files
              /\ apResult.fs.files[p] = apTree.files[p]
        /\ DOMAIN apResult.fs.files = (DOMAIN apTree.files) \cup FilteredFiles(apSrc)
        /\ \A p \in FilteredFiles(apSrc) \ DOMAIN apTree.files :
              apResult.fs.files[p] = apSrc

---------------------------------------------------------------------------
(* Properties of the window *)

\* C25: at most one goroutine of startConversion runs at a time; the convert
\* button is disabled exactly while one runs, from before its start to its
\* end on every path; MigrateToGit is called only with the folders that
\* FindVersionedFolders has found; and a disabled button is enabled again
C25_OneMigrationAtATime ==
    /\ [](Cardinality(Running) <= 1)
    /\ [](convertButton.enabled <=> Running = {})
    /\ [](\A id \in 1..MaxRoutines :
            goroutines[id].pc = "migrate" => goroutines[id].folders > 0)
    /\ (~convertButton.enabled ~> convertButton.enabled)

\* a migration has ended without an error and the button is enabled again,
\* after it was disabled
C25_Witness ==
    /\ shown = "success"
    /\ guiConfig.TargetDir # <<>>
    /\ Running = {}
    /\ convertButton = [enabled |-> TRUE, text |-> "start"]

---------------------------------------------------------------------------
(* Properties of the list FindVersionedFolders returns *)

\* a text of the form of the default extraction pattern: digits, or digits,
\* a dot and digits
IsVersionText(v) ==
    /\ v # <<>>
    /\ \A k \in DOMAIN v : IsDigit(v[k]) \/ v[k] = "."
    /\ IsDigit(v[1]) /\ IsDigit(v[Len(v)])
    /\ Cardinality({ k \in DOMAIN v : v[k] = "." }) <= 1

\* the first match of the default extraction pattern in a name that holds a
\* digit: it begins at the first digit and is the longest text of the
\* pattern's form from there
LeftmostVersion(name) ==
    LET i == CHOOSE k \in DOMAIN name :
                 IsDigit(name[k]) /\ \A j \in 1..(k - 1) : ~IsDigit(name[j])
        j == CHOOSE k \in i..Len(name) :
                 /\ IsVersionText(SubSeq(name, i, k))
                 /\ \A l \in (k + 1)..Len(name) : ~IsVersionText(SubSeq(name, i, l))
    IN  SubSeq(name, i, j)

\* whether a pattern of the calls matches a name: the empty pattern matches
\* every name (with the empty text), the default one a name with a digit
PatternMatches(pattern, name) ==
    pattern = EmptyPattern \/ (pattern = DefaultPattern /\ HoldsDigit(name))

\* the first match of a pattern of the calls in a name it matches
FirstMatch(pattern, name) ==
    IF pattern = DefaultPattern THEN LeftmostVersion(name) ELSE <<>>

\* the list returned is that of the matches at the positions in expected:
\* one entry for each, none for anything else, every entry with the first
\* match of the pattern as its version; and there is no error when there is
\* such a match
ListsExactly(expected) ==
    /\ \A k \in expected :
          Cardinality({ i \in DOMAIN found : found[i].Path = matches[k].Name }) = 1
    /\ \A i \in DOMAIN found :
          \E k \in expected :
              /\ found[i].Path = matches[k].Name
              /\ found[i].Version = FirstMatch(findConfig.ExtractPattern, matches[k].Name)
              /\ found[i].CreationTime = matches[k].CreationTime
    /\ expected # {} => findErr = ""
    /\ findErr \in {"", "NoFoldersFound"}

\* C26 as stated: when the pattern compiles and the glob succeeds, the list
\* FindVersionedFolders returns holds exactly one entry for every match that
\* is a directory and whose base name the extraction pattern matches, and
\* no other entry, each with the first match as its version
C26_OneEntryPerMatch ==
    (findpc = "returned" /\ Compiles(findConfig.ExtractPattern) /\ findConfig.GlobOk) =>
        ListsExactly({ k \in DOMAIN matches :
                         /\ matches[k].IsDir
                         /\ PatternMatches(findConfig.ExtractPattern, matches[k].Name) })

\* C26, amended: when the pattern compiles and the glob succeeds, the list
\* FindVersionedFolders returns holds exactly one entry for every match that
\* is a directory and in whose base name the first match of the extraction
\* pattern is not empty, and no other entry, each with that first match as
\* its version; every other match is skipped without an error
C26_OneEntryPerVersion ==
    (findpc = "returned" /\ Compiles(findConfig.ExtractPattern) /\ findConfig.GlobOk) =>
        ListsExactly({ k \in DOMAIN matches :
                         /\ matches[k].IsDir
                         /\ PatternMatches(findConfig.ExtractPattern, matches[k].Name)
                         /\ FirstMatch(findConfig.ExtractPattern, matches[k].Name) # <<>> })

\* FindVersionedFolders has returned a list for matches among which are a
\* file with a version in its name, a directory without one, and a
\* directory whose name holds two versions
C26_Witness ==
    /\ findpc = "returned"
    /\ findErr = ""
    /\ findConfig.ExtractPattern = DefaultPattern
    /\ \E k \in DOMAIN matches : ~matches[k].IsDir /\ HoldsDigit(matches[k].Name)
    /\ \E k \in DOMAIN matches : matches[k].IsDir /\ ~HoldsDigit(matches[k].Name)
    /\ \E i \in DOMAIN found :
          /\ found[i].Path = <<"v", "2", "-", "3">>
          /\ found[i].Version = <<"2">>

===========================================================================
